---------------------------- MODULE Spec2Model ----------------------------
(***************************************************************************)
(* A model of scientist.Experiment: the builder calls that configure an    *)
(* experiment, and run() / async_run() as a sequence of steps, one step    *)
(* per call the experiment makes into caller-supplied code (gate, hooks,   *)
(* control, candidate, comparator, ignore filters, publisher, cleanup).    *)
(* What a caller-supplied callable does is not known to the experiment, so *)
(* its outcome (a value, a verdict, or a raised exception) is chosen when  *)
(* the step that calls it is taken.                                        *)
(***************************************************************************)
EXTENDS Integers, Sequences, FiniteSets

\* Bounds of the model: how many hooks and filters are ever registered.
MaxHooks == 2
MaxFilters == 2

\* Python's None, where a callable, a value or a flag is held, and where an
\* object (an Observation, a Result, an exception) is held.
None == "None"
Null == [null |-> TRUE]
\* A caller-supplied callable.
Fn == "fn"
\* Python's True and False, where None may be held too.
True == "True"
False == "False"

\* The values a behaviour may return.
Values == {"v1", "v2"}
\* The exception types a behaviour may raise: an ordinary one (a subclass of
\* Exception) and a foundational one (a BaseException that is no Exception).
Ordinary == "RuntimeError"
Foundational == "KeyboardInterrupt"
ExcTypes == {Ordinary, Foundational}

VARIABLES
    \* Experiment.__init__ fields
    _control, _candidate, _comparator, _publisher, _run_if_fn, _enabled,
    _ignore_filters, _before_run_hooks, _clean_fn, _raise_on_mismatches,
    \* context.py
    _default_publisher_context, _default_enabled_context,
    \* one call of run() / async_run()
    pc, mode, i, control_obs, candidate_obs, result, outcome,
    \* the random draws of this call, and the behaviours being executed
    draws, running,
    \* what the caller-supplied code saw of this call
    calls, published,
    \* whether a foundational exception (KeyboardInterrupt, SystemExit, a
    \* cancellation) may be raised while the publisher or the cleanup runs
    interrupts,
    \* what the caller kept of the call of run() it made before this one
    previous,
    \* the last call made of a function of the library on its own: the
    \* function, its arguments and what the call gave
    evaluation,
    \* calls of run() in progress at the same time on one experiment: where
    \* each call is and what its behaviours did, the local variables of each
    \* call, and what the sink has received
    inflight, locals, sunk,
    \* the execution contexts of the process (one per thread, one per task),
    \* what the two ContextVars of context.py hold in each, and what was set
    scopes,
    \* what the caller has counted over the calls of run() it has made: the
    \* calls that were to submit a Result, and the Results the sink received
    tally,
    \* the configuration calls made on the experiment so far, in order: the
    \* method, its argument and what the call returned
    chained

config == <<_control, _candidate, _comparator, _publisher, _run_if_fn, _enabled,
            _ignore_filters, _before_run_hooks, _clean_fn, _raise_on_mismatches>>
ambient == <<_default_publisher_context, _default_enabled_context>>
frame == <<pc, mode, i, control_obs, candidate_obs, result, outcome,
           draws, running>>
seen == <<calls, published>>
\* What is outside the one experiment and the one call in progress.
apart == <<previous, evaluation, inflight, locals, sunk, scopes, tally,
          chained>>
vars == <<config, ambient, frame, seen, interrupts, apart>>

----------------------------------------------------------------------------
\* observation.py

Observation(name, value, exception) ==
    [name |-> name, value |-> value, exception |-> exception]

raised(obs) == obs.exception # Null

\* An exception object: its type, and who raised it.
Exc(type, by) == [type |-> type, by |-> by]

\* What a behaviour may do when called.
BehaviourOutcomes == [kind : {"return"}, value : Values]
                       \cup [kind : {"raise"}, type : ExcTypes]

\* What a behaviour did, in a word: the value it returned, or the type it
\* raised.
Did(o) == IF o.kind = "return" THEN o.value ELSE o.type

\* observe(name, behavior): catches BaseException, so never raises.
observe(name, o) ==
    IF o.kind = "return"
    THEN Observation(name, o.value, Null)
    ELSE Observation(name, None, Exc(o.type, name))

\* Mutant of async_observe: a foundational failure (a cancellation) is let
\* go and no failure is recorded.
async_observe_except_exception(name, o) ==
    IF o.kind = "return"
    THEN Observation(name, o.value, Null)
    ELSE IF o.type = Foundational
    THEN Observation(name, None, Null)
    ELSE Observation(name, None, Exc(o.type, name))

\* async_observe(name, behavior): awaits the behaviour; catches
\* BaseException, so never raises.
async_observe(name, o) ==
    IF o.kind = "return"
    THEN Observation(name, o.value, Null)
    ELSE Observation(name, None, Exc(o.type, name))

----------------------------------------------------------------------------
\* result.py

Result(control, candidate, matched, ignored) ==
    [control |-> control, candidate |-> candidate,
     matched |-> matched, ignored |-> ignored]

mismatched(r) == ~r.matched
\* Mutant of ignored_mismatch: the matched flag is not looked at.
ignored_mismatch_any(r) == r.ignored

ignored_mismatch(r) == mismatched(r) /\ r.ignored
\* Mutant of unexpected_mismatch: the ignored flag is not looked at.
unexpected_mismatch_any(r) == mismatched(r)

unexpected_mismatch(r) == mismatched(r) /\ ~r.ignored

----------------------------------------------------------------------------
\* What run() hands to its caller.
Return(v) == [kind |-> "return", value |-> v]
Raise(e) == [kind |-> "raise", exc |-> e]

ConfigurationFailure == Exc("ValueError", "run")
\* errors.py: the mismatch failure carries the Result.
ExperimentMismatchError(r) ==
    [type |-> "ExperimentMismatchError", by |-> "run", result |-> r]

\* One call into caller-supplied code: which callable, which one of a list,
\* and what it did (its value or verdict, or the type it raised).
Call(op, n, out) == [op |-> op, n |-> n, out |-> out]
\* A call whose arguments are recorded too.
CallWith(op, args, out) == [op |-> op, n |-> 0, args |-> args, out |-> out]

\* How many execution contexts (threads and tasks) the process has.
MaxContexts == 2
ContextIds == 1 .. MaxContexts

\* A ContextVar that was given no value in a context.
Unset == "unset"
\* A context in which neither ContextVar was given a value.
EmptyContext == [publisher |-> Unset, enabled |-> Unset]

\* The process as it starts: the main thread's context is context 1, and no
\* ContextVar has a value.  Per context: alive, whether the context exists;
\* vars, what the ContextVars hold in it; born, what they held when the
\* context was created; own, what was set in the context itself; and
\* written, what the last call of each setter in the process set.
NoScopes ==
    [alive |-> {1},
     vars |-> [c \in ContextIds |-> EmptyContext],
     born |-> [c \in ContextIds |-> EmptyContext],
     own |-> [c \in ContextIds |-> EmptyContext],
     written |-> EmptyContext]

\* The caller has made no call of run() yet.
NoTally == [qualifying |-> 0, submitted |-> 0]

\* Experiment.__init__, and the defaults of the two ContextVars.
InitExperiment ==
    /\ _control = None
    /\ _candidate = None
    /\ _comparator = "DefaultComparator"
    /\ _publisher = None
    /\ _run_if_fn = None
    /\ _enabled = None
    /\ _ignore_filters = <<>>
    /\ _before_run_hooks = <<>>
    /\ _clean_fn = None
    /\ _raise_on_mismatches = FALSE
    /\ _default_publisher_context = None
    /\ _default_enabled_context = TRUE
    /\ pc = "idle"
    /\ mode = None
    /\ i = 0
    /\ control_obs = Null
    /\ candidate_obs = Null
    /\ result = Null
    /\ outcome = Null
    /\ draws = <<>>
    /\ running = {}
    /\ calls = <<>>
    /\ published = <<>>
    /\ previous = Null
    /\ evaluation = Null
    /\ inflight = <<>>
    /\ locals = <<>>
    /\ sunk = <<>>
    /\ scopes = NoScopes
    /\ tally = NoTally
    /\ chained = <<>>

Init == InitExperiment /\ interrupts = FALSE

InitInterrupts == InitExperiment /\ interrupts = TRUE

----------------------------------------------------------------------------
\* Builder calls.  They are made by the single owner of the experiment while
\* no run is in progress.

use ==
    /\ pc = "idle"
    /\ _control' = Fn
    /\ UNCHANGED <<interrupts, apart, _candidate, _comparator, _publisher, _run_if_fn, _enabled,
                   _ignore_filters, _before_run_hooks, _clean_fn,
                   _raise_on_mismatches, ambient, frame, seen>>

try_ ==
    /\ pc = "idle"
    /\ _candidate' = Fn
    /\ UNCHANGED <<interrupts, apart, _control, _comparator, _publisher, _run_if_fn, _enabled,
                   _ignore_filters, _before_run_hooks, _clean_fn,
                   _raise_on_mismatches, ambient, frame, seen>>

\* compare(comparator): a caller-supplied comparator replaces the default one.
compare ==
    /\ pc = "idle"
    /\ _comparator' = "custom"
    /\ UNCHANGED <<interrupts, apart, _control, _candidate, _publisher, _run_if_fn, _enabled,
                   _ignore_filters, _before_run_hooks, _clean_fn,
                   _raise_on_mismatches, ambient, frame, seen>>

\* The publisher objects: any object with a publish method is one, and like
\* any object it has a truth value, which is false for an object whose
\* __bool__ answers False or whose __len__ answers 0.
Publishers == {"instance", "falsy_instance"}
DefaultPublishers == {"default", "falsy_default"}
Truthy(p) == p \notin {None, "falsy_instance", "falsy_default"}

publish(publisher) ==
    /\ pc = "idle"
    /\ _publisher' = publisher
    /\ UNCHANGED <<interrupts, apart, _control, _candidate, _comparator, _run_if_fn, _enabled,
                   _ignore_filters, _before_run_hooks, _clean_fn,
                   _raise_on_mismatches, ambient, frame, seen>>

run_if ==
    /\ pc = "idle"
    /\ _run_if_fn' = Fn
    /\ UNCHANGED <<interrupts, apart, _control, _candidate, _comparator, _publisher, _enabled,
                   _ignore_filters, _before_run_hooks, _clean_fn,
                   _raise_on_mismatches, ambient, frame, seen>>

enabled(value) ==
    /\ pc = "idle"
    /\ _enabled' = IF value THEN True ELSE False
    /\ UNCHANGED <<interrupts, apart, _control, _candidate, _comparator, _publisher, _run_if_fn,
                   _ignore_filters, _before_run_hooks, _clean_fn,
                   _raise_on_mismatches, ambient, frame, seen>>

\* ignore(fn): the n-th filter registered is filter n.
ignore ==
    /\ pc = "idle"
    /\ Len(_ignore_filters) < MaxFilters
    /\ _ignore_filters' = Append(_ignore_filters, Len(_ignore_filters) + 1)
    /\ UNCHANGED <<interrupts, apart, _control, _candidate, _comparator, _publisher, _run_if_fn,
                   _enabled, _before_run_hooks, _clean_fn,
                   _raise_on_mismatches, ambient, frame, seen>>

\* Mutant of before_run: the hook is put in front of the list.
before_run_in_front ==
    /\ pc = "idle"
    /\ Len(_before_run_hooks) < MaxHooks
    /\ _before_run_hooks' = <<Len(_before_run_hooks) + 1>> \o _before_run_hooks
    /\ UNCHANGED <<interrupts, apart, _control, _candidate, _comparator, _publisher, _run_if_fn,
                   _enabled, _ignore_filters, _clean_fn,
                   _raise_on_mismatches, ambient, frame, seen>>

\* before_run(fn): the n-th hook registered is hook n.
before_run ==
    /\ pc = "idle"
    /\ Len(_before_run_hooks) < MaxHooks
    /\ _before_run_hooks' = Append(_before_run_hooks, Len(_before_run_hooks) + 1)
    /\ UNCHANGED <<interrupts, apart, _control, _candidate, _comparator, _publisher, _run_if_fn,
                   _enabled, _ignore_filters, _clean_fn,
                   _raise_on_mismatches, ambient, frame, seen>>

clean ==
    /\ pc = "idle"
    /\ _clean_fn' = Fn
    /\ UNCHANGED <<interrupts, apart, _control, _candidate, _comparator, _publisher, _run_if_fn,
                   _enabled, _ignore_filters, _before_run_hooks,
                   _raise_on_mismatches, ambient, frame, seen>>

raise_on_mismatches ==
    /\ pc = "idle"
    /\ _raise_on_mismatches' = TRUE
    /\ UNCHANGED <<interrupts, apart, _control, _candidate, _comparator, _publisher, _run_if_fn,
                   _enabled, _ignore_filters, _before_run_hooks, _clean_fn,
                   ambient, frame, seen>>

\* context.py
set_default_publisher(p) ==
    /\ pc = "idle"
    /\ _default_publisher_context' = p
    /\ UNCHANGED <<interrupts, apart, config, _default_enabled_context, frame, seen>>

set_default_enabled(value) ==
    /\ pc = "idle"
    /\ _default_enabled_context' = value
    /\ UNCHANGED <<interrupts, apart, config, _default_publisher_context, frame, seen>>

get_default_publisher == _default_publisher_context
get_default_enabled == _default_enabled_context

----------------------------------------------------------------------------
\* Experiment, the helpers of run().

\* Mutant of _is_enabled: the explicit flag of the experiment is not looked at.
_is_enabled_default_only == get_default_enabled

\* Mutant of _is_enabled: with no explicit flag the experiment is enabled,
\* whatever the ambient default is.
_is_enabled_flag_only == _enabled # False

_is_enabled == IF _enabled # None THEN _enabled = True ELSE get_default_enabled

\* self._publisher or get_default_publisher() or NoopPublisher()
_get_publisher ==
    IF Truthy(_publisher) THEN _publisher
    ELSE IF Truthy(get_default_publisher) THEN get_default_publisher
    ELSE "NoopPublisher"

\* Mutant of SameType: the two exception objects are compared.
SameException(e1, e2) == e1 = e2

\* The type comparison of two captured exceptions.
SameType(e1, e2) == e1.type = e2.type

\* Mutant of LeaveTry: the cleanup function is called at the end of the try
\* block, so only when run() returns normally.
LeaveTryCleanupOnReturn(out) ==
    /\ outcome' = out
    /\ pc' = IF _clean_fn # None /\ out.kind = "return" THEN "finally" ELSE "done"

\* The statement the try block of run() is left with: the finally clause
\* calls the cleanup function when one is set.
LeaveTry(out) ==
    /\ outcome' = out
    /\ pc' = IF _clean_fn # None THEN "finally" ELSE "done"

\* Mutant of Leave: the whole of run() is inside the try statement, so the
\* cleanup function is called on every way out.
LeaveWithCleanup(out) ==
    /\ outcome' = out
    /\ pc' = IF _clean_fn # None THEN "finally" ELSE "done"

\* The statement run() is left with outside the try block.
Leave(out) ==
    /\ outcome' = out
    /\ pc' = "done"

\* What a callable that returns nothing may do, and what a predicate may do.
ProcedureOutcomes ==
    IF interrupts THEN {"ok", Ordinary, Foundational} ELSE {"ok", Ordinary}
PredicateOutcomes == {True, False, Ordinary}

\* Mutant of ControlOnly: the candidate is required too.
ControlOnlyRequiresBoth ==
    IF _control = None \/ _candidate = None
    THEN Leave(Raise(ConfigurationFailure))
    ELSE pc' = "control_only" /\ outcome' = Null

\* _run_control_only, lines 139-140: the control must be set.
ControlOnly ==
    IF _control = None
    THEN Leave(Raise(ConfigurationFailure))
    ELSE pc' = "control_only" /\ outcome' = Null

\* Mutant of AsyncControlOnly: the candidate is required too.
AsyncControlOnlyRequiresBoth ==
    IF _control = None \/ _candidate = None
    THEN Leave(Raise(ConfigurationFailure))
    ELSE pc' = "control_only" /\ outcome' = Null

\* async_run, lines 225-226 and 230-231: the control must be set; it is
\* awaited at lines 227 and 232.
AsyncControlOnly ==
    IF _control = None
    THEN Leave(Raise(ConfigurationFailure))
    ELSE pc' = "control_only" /\ outcome' = Null

\* The control-only path of run() and the one of async_run().
ControlOnlyOf(m) == IF m = "async_run" THEN AsyncControlOnly ELSE ControlOnly

\* run, lines 199-202: both behaviours must be set; then the try block.
Require ==
    IF _control = None \/ _candidate = None
    THEN Leave(Raise(ConfigurationFailure))
    ELSE pc' = "first" /\ outcome' = Null

\* run, lines 196-197: the hooks, when there are any.
Hooks ==
    IF Len(_before_run_hooks) > 0
    THEN pc' = "hooks" /\ i' = 1 /\ outcome' = Null
    ELSE i' = 0 /\ Require

\* Mutant of run: the gate is asked before the enablement check.
run_gate_first(m) ==
    /\ pc = "idle"
    /\ mode' = m
    /\ IF _run_if_fn # None THEN pc' = "gate" /\ i' = 0 /\ outcome' = Null
       ELSE IF ~_is_enabled THEN i' = 0 /\ ControlOnlyOf(m)
       ELSE Hooks
    /\ UNCHANGED <<interrupts, apart, config, ambient, control_obs, candidate_obs, result, seen,
                   draws, running>>

\* run() or async_run() is called: lines 190-194 up to the gate's call.
run(m) ==
    /\ pc = "idle"
    /\ mode' = m
    /\ IF ~_is_enabled THEN i' = 0 /\ ControlOnlyOf(m)
       ELSE IF _run_if_fn # None THEN pc' = "gate" /\ i' = 0 /\ outcome' = Null
       ELSE Hooks
    /\ UNCHANGED <<interrupts, apart, config, ambient, control_obs, candidate_obs, result, seen,
                   draws, running>>

\* run, line 193: the gate is called.
gate ==
    /\ pc = "gate"
    /\ \E v \in PredicateOutcomes :
          /\ calls' = Append(calls, Call("run_if", 0, v))
          /\ CASE v = True -> Hooks
               [] v = False -> i' = 0 /\ ControlOnlyOf(mode)
               [] OTHER -> i' = 0 /\ Leave(Raise(Exc(v, "run_if")))
    /\ UNCHANGED <<interrupts, apart, config, ambient, mode, control_obs, candidate_obs, result,
                   published, draws, running>>

\* _run_control_only, line 141: the control is called directly.
_run_control_only ==
    /\ pc = "control_only"
    /\ \E o \in BehaviourOutcomes :
          /\ calls' = Append(calls, Call("control", 0, Did(o)))
          /\ Leave(IF o.kind = "return" THEN Return(o.value)
                   ELSE Raise(Exc(o.type, "control")))
    /\ UNCHANGED <<interrupts, apart, config, ambient, mode, i, control_obs, candidate_obs, result,
                   published, draws, running>>

\* Mutant of Propagates: the call is guarded by except Exception.
PropagatesFoundational(v) == v = Foundational

\* A call that is in no try statement: whatever it raises leaves run().
Propagates(v) == v # "ok"

\* run, lines 196-197: hook i is called; a hook that raises ends run().
hook ==
    /\ pc = "hooks"
    /\ \E v \in ProcedureOutcomes :
          /\ calls' = Append(calls, Call("before_run", _before_run_hooks[i], v))
          /\ IF Propagates(v) THEN i' = i /\ Leave(Raise(Exc(v, "before_run")))
             ELSE IF i < Len(_before_run_hooks)
                  THEN pc' = "hooks" /\ i' = i + 1 /\ outcome' = Null
                  ELSE i' = 0 /\ Require
    /\ UNCHANGED <<interrupts, apart, config, ambient, mode, control_obs, candidate_obs, result,
                   published, draws, running>>

\* What random.random() may return, in hundredths: a float in [0.0, 1.0).
Draws == {0, 49, 50, 99}
\* run, lines 205 and 243: the draw is compared with 0.5.
Half == 50
ControlFirst(draw) == draw < Half

\* The behaviour observed first and the one observed second, for a draw.
FirstOf(draw) == IF ControlFirst(draw) THEN "control" ELSE "candidate"
SecondOf(draw) == IF ControlFirst(draw) THEN "candidate" ELSE "control"

\* Mutant of Finished: the behaviour was started and not waited for.
FinishedNotAwaited(r, name) == r

\* observe and async_observe return (lines 71 and 97, 79 and 105) when the
\* behaviour they called, or awaited, has returned or raised.
Finished(r, name) == r \ {name}

\* The Observation of the behaviour that has finished is bound.
Observed(name, o) ==
    /\ calls' = Append(calls, Call(name, 0, Did(o)))
    /\ running' = Finished(running, name)
    /\ LET obs == IF mode = "async_run"
                  THEN async_observe(name, o) ELSE observe(name, o)
       IN  IF name = "control"
           THEN control_obs' = obs /\ UNCHANGED candidate_obs
           ELSE candidate_obs' = obs /\ UNCHANGED control_obs

\* run, lines 205-209: the draw; observe calls the behaviour it selects.
draw_order ==
    /\ pc = "first"
    /\ \E draw \in Draws :
          /\ draws' = Append(draws, draw)
          /\ running' = running \cup {FirstOf(draw)}
    /\ pc' = "first_running"
    /\ UNCHANGED <<interrupts, apart, config, ambient, mode, i, control_obs, candidate_obs, result,
                   outcome, seen>>

\* Mutant of first: observe catches Exception only, so a foundational failure
\* of the first behaviour leaves the try block at once.
first_except_exception ==
    /\ pc = "first_running"
    /\ \E o \in BehaviourOutcomes :
          IF o.kind = "raise" /\ o.type = Foundational
          THEN /\ calls' = Append(calls,
                     Call(FirstOf(draws[Len(draws)]), 0, Did(o)))
               /\ running' = Finished(running, FirstOf(draws[Len(draws)]))
               /\ LeaveTry(Raise(Exc(o.type, FirstOf(draws[Len(draws)]))))
               /\ UNCHANGED <<control_obs, candidate_obs>>
          ELSE /\ Observed(FirstOf(draws[Len(draws)]), o)
               /\ pc' = "second"
               /\ UNCHANGED outcome
    /\ UNCHANGED <<interrupts, apart, config, ambient, mode, i, result,
                   published, draws>>

\* run, lines 206 and 209: the first behaviour returns or raises, and its
\* Observation is made.
first ==
    /\ pc = "first_running"
    /\ \E o \in BehaviourOutcomes : Observed(FirstOf(draws[Len(draws)]), o)
    /\ pc' = "second"
    /\ UNCHANGED <<interrupts, apart, config, ambient, mode, i, result, outcome, published, draws>>

\* run, lines 207 and 210: observe calls the other behaviour.
observe_second ==
    /\ pc = "second"
    /\ running' = running \cup {SecondOf(draws[Len(draws)])}
    /\ pc' = "second_running"
    /\ UNCHANGED <<interrupts, apart, config, ambient, mode, i, control_obs, candidate_obs, result,
                   outcome, seen, draws>>

\* run, lines 207 and 210: the other behaviour returns or raises, and its
\* Observation is made.
second ==
    /\ pc = "second_running"
    /\ \E o \in BehaviourOutcomes : Observed(SecondOf(draws[Len(draws)]), o)
    /\ pc' = "compare"
    /\ UNCHANGED <<interrupts, apart, config, ambient, mode, i, result, outcome, published, draws>>

\* _compare_observations: verdict is what the comparator answered; it is
\* asked only when neither behaviour raised.
_compare_observations(control, candidate, verdict) ==
    IF raised(control) /\ raised(candidate)
    THEN SameType(control.exception, candidate.exception)
    ELSE IF ~raised(control) /\ ~raised(candidate)
    THEN verdict
    ELSE FALSE

\* What the configured comparator may answer for two values.
ComparatorOutcomes(a, b) ==
    IF _comparator = "DefaultComparator"
    THEN {IF a = b THEN True ELSE False}
    ELSE PredicateOutcomes

\* _build_result, lines 156-160: the filter loop, when there are filters.
Filters ==
    IF Len(_ignore_filters) > 0
    THEN pc' = "filters" /\ i' = 1
    ELSE pc' = "finish" /\ i' = 0

\* _build_result, lines 146-154: the comparison and the first Result.
_build_result ==
    /\ pc = "compare"
    /\ IF ~raised(control_obs) /\ ~raised(candidate_obs)
       THEN \E v \in ComparatorOutcomes(control_obs.value, candidate_obs.value) :
               /\ calls' = Append(calls,
                     CallWith("compare", <<control_obs.value, candidate_obs.value>>, v))
               /\ IF v \in {True, False}
                  THEN /\ result' = Result(control_obs, candidate_obs,
                              _compare_observations(control_obs, candidate_obs,
                                                    v = True),
                              FALSE)
                       /\ Filters
                       /\ UNCHANGED outcome
                  ELSE /\ LeaveTry(Raise(Exc(v, "compare")))
                       /\ UNCHANGED <<interrupts, apart, result, i>>
       ELSE /\ result' = Result(control_obs, candidate_obs,
                   _compare_observations(control_obs, candidate_obs, FALSE),
                   FALSE)
            /\ Filters
            /\ UNCHANGED <<interrupts, apart, calls, outcome>>
    /\ UNCHANGED <<interrupts, apart, config, ambient, mode, control_obs, candidate_obs, published,
                   draws, running>>

\* Mutant of Ignored: the Result is not rebuilt.
IgnoredNotSet(r) == r

\* _build_result, lines 162-169: the Result rebuilt with ignored = True.
Ignored(r) == Result(r.control, r.candidate, r.matched, TRUE)

\* Mutant of Break: the loop goes on after a filter answered true.
BreakNever(v) == FALSE

\* _build_result, lines 158-160: the loop is left at the first filter that
\* answers true.
Break(v) == v = True

\* Mutant of ignore_filter: a filter that raises is taken to have answered
\* false.
ignore_filter_guarded ==
    /\ pc = "filters"
    /\ \E v \in PredicateOutcomes :
          /\ calls' = Append(calls, Call("ignore", _ignore_filters[i], v))
          /\ result' = IF v = True THEN Ignored(result) ELSE result
          /\ IF ~Break(v) /\ i < Len(_ignore_filters)
             THEN pc' = "filters" /\ i' = i + 1
             ELSE pc' = "finish" /\ i' = 0
          /\ UNCHANGED outcome
    /\ UNCHANGED <<interrupts, apart, config, ambient, mode, control_obs, candidate_obs, published,
                   draws, running>>

\* _build_result, lines 157-169: filter i is called with the Result; the
\* first one that answers true ends the loop and the Result is rebuilt with
\* ignored = True.
ignore_filter ==
    /\ pc = "filters"
    /\ \E v \in PredicateOutcomes :
          /\ calls' = Append(calls, Call("ignore", _ignore_filters[i], v))
          /\ IF v \in {True, False}
             THEN /\ result' = IF v = True THEN Ignored(result) ELSE result
                  /\ IF ~Break(v) /\ i < Len(_ignore_filters)
                     THEN pc' = "filters" /\ i' = i + 1
                     ELSE pc' = "finish" /\ i' = 0
                  /\ UNCHANGED outcome
             ELSE /\ LeaveTry(Raise(Exc(v, "ignore")))
                  /\ UNCHANGED <<result, i>>
    /\ UNCHANGED <<interrupts, apart, config, ambient, mode, control_obs, candidate_obs, published,
                   draws, running>>

\* What the publisher may do: NoopPublisher.publish does nothing.
PublisherOutcomes(p) == IF p = "NoopPublisher" THEN {"ok"} ELSE ProcedureOutcomes

\* Mutant of CaughtByExceptException: the call is not guarded.
CaughtByNothing(type) == FALSE

\* except Exception: the exception types the handler catches.
CaughtByExceptException(type) == type # Foundational

\* Mutant of Decide: the control's failure is re-raised before the mismatch
\* is looked at.
DecideControlFirst(r, c) ==
    IF raised(c) THEN Raise(c.exception)
    ELSE IF _raise_on_mismatches /\ unexpected_mismatch(r)
    THEN Raise(ExperimentMismatchError(r))
    ELSE Return(c.value)

\* _finish, lines 180-186: what run() is to hand to its caller.
Decide(r, c) ==
    IF _raise_on_mismatches /\ unexpected_mismatch(r)
    THEN Raise(ExperimentMismatchError(r))
    ELSE IF raised(c) THEN Raise(c.exception) ELSE Return(c.value)

\* Mutant of _finish: the mismatch failure is raised before the Result is
\* published.
_finish_raise_first ==
    /\ pc = "finish"
    /\ IF _raise_on_mismatches /\ unexpected_mismatch(result)
       THEN /\ LeaveTry(Raise(ExperimentMismatchError(result)))
            /\ UNCHANGED <<calls, published>>
       ELSE \E v \in PublisherOutcomes(_get_publisher) :
               /\ calls' = Append(calls, Call("publish", 0, v))
               /\ published' = Append(published,
                                      [to |-> _get_publisher, result |-> result])
               /\ IF v = "ok" \/ CaughtByExceptException(v)
                  THEN LeaveTry(Decide(result, control_obs))
                  ELSE LeaveTry(Raise(Exc(v, "publish")))
    /\ UNCHANGED <<interrupts, apart, config, ambient, mode, i, control_obs, candidate_obs, result,
                   draws, running>>

\* _finish: the Result is published, then the decision is taken.
_finish ==
    /\ pc = "finish"
    /\ \E v \in PublisherOutcomes(_get_publisher) :
          /\ calls' = Append(calls, Call("publish", 0, v))
          /\ published' = Append(published, [to |-> _get_publisher, result |-> result])
          /\ IF v = "ok" \/ CaughtByExceptException(v)
             THEN LeaveTry(Decide(result, control_obs))
             ELSE LeaveTry(Raise(Exc(v, "publish")))
    /\ UNCHANGED <<interrupts, apart, config, ambient, mode, i, control_obs, candidate_obs, result,
                   draws, running>>

\* Mutant of finally: the cleanup function is called outside any try.
finally_unguarded ==
    /\ pc = "finally"
    /\ \E v \in ProcedureOutcomes :
          /\ calls' = Append(calls, Call("clean", 0, v))
          /\ outcome' = IF v = "ok" THEN outcome ELSE Raise(Exc(v, "clean"))
    /\ pc' = "done"
    /\ UNCHANGED <<interrupts, apart, config, ambient, mode, i, control_obs, candidate_obs, result,
                   published, draws, running>>

\* run, lines 215-220: the finally clause calls the cleanup function.
finally ==
    /\ pc = "finally"
    /\ \E v \in ProcedureOutcomes :
          /\ calls' = Append(calls, Call("clean", 0, v))
          /\ outcome' = IF v = "ok" \/ CaughtByExceptException(v)
                        THEN outcome ELSE Raise(Exc(v, "clean"))
    /\ pc' = "done"
    /\ UNCHANGED <<interrupts, apart, config, ambient, mode, i, control_obs, candidate_obs, result,
                   published, draws, running>>

\* The call returns to its caller, which receives outcome; the frame of the
\* call is gone.
deliver ==
    /\ pc = "done"
    /\ pc' = "idle"
    /\ mode' = None
    /\ i' = 0
    /\ control_obs' = Null
    /\ candidate_obs' = Null
    /\ result' = Null
    /\ outcome' = Null
    /\ draws' = <<>>
    /\ running' = {}
    /\ calls' = <<>>
    /\ published' = <<>>
    /\ UNCHANGED <<interrupts, apart, config, ambient>>

----------------------------------------------------------------------------
Configure ==
    \/ use \/ try_ \/ raise_on_mismatches \/ ignore \/ before_run \/ clean
    \/ compare \/ publish("instance") \/ run_if
    \/ \E value \in BOOLEAN : enabled(value)

SetDefaults ==
    \/ \E p \in {None} \cup DefaultPublishers : set_default_publisher(p)
    \/ \E value \in BOOLEAN : set_default_enabled(value)

Step ==
    \/ gate \/ _run_control_only \/ hook
    \/ draw_order \/ first \/ observe_second \/ second
    \/ _build_result \/ ignore_filter \/ _finish \/ finally \/ deliver

\* An experiment configured and run in a process that leaves the defaults of
\* context.py as they are.
Next ==
    \/ Configure
    \/ \E m \in {"run", "async_run"} : run(m)
    \/ Step

Spec == Init /\ [][Next]_vars

\* An experiment with the defaults of context.py set by the process; the
\* experiment registers no hook, filter, comparator or cleanup function.
NextContext ==
    \/ use \/ try_ \/ run_if \/ raise_on_mismatches
    \/ \E publisher \in Publishers : publish(publisher)
    \/ \E value \in BOOLEAN : enabled(value)
    \/ SetDefaults
    \/ \E m \in {"run", "async_run"} : run(m)
    \/ gate \/ _run_control_only
    \/ draw_order \/ first \/ observe_second \/ second \/ _build_result
    \/ _finish \/ deliver

SpecContext == Init /\ [][NextContext]_vars

\* Mutant of keep: the filters are used up by the call that returns.
keep_dropping_filters ==
    /\ pc = "done" /\ mode = "run" /\ previous = Null
    /\ previous' = [outcome |-> outcome, calls |-> calls,
                    published |-> published, draws |-> draws]
    /\ _ignore_filters' = <<>>
    /\ pc' = "idle"
    /\ mode' = None
    /\ i' = 0
    /\ control_obs' = Null
    /\ candidate_obs' = Null
    /\ result' = Null
    /\ outcome' = Null
    /\ draws' = <<>>
    /\ running' = {}
    /\ calls' = <<>>
    /\ published' = <<>>
    /\ UNCHANGED <<interrupts, _control, _candidate, _comparator, _publisher,
                   _run_if_fn, _enabled, _before_run_hooks, _clean_fn,
                   _raise_on_mismatches, ambient, evaluation, inflight,
                   locals, sunk, scopes, tally, chained>>

\* The caller keeps what a finished run() handed back and what the
\* caller-supplied code saw of it, to call async_run() next.
keep ==
    /\ pc = "done" /\ mode = "run" /\ previous = Null
    /\ previous' = [outcome |-> outcome, calls |-> calls,
                    published |-> published, draws |-> draws]
    /\ pc' = "idle"
    /\ mode' = None
    /\ i' = 0
    /\ control_obs' = Null
    /\ candidate_obs' = Null
    /\ result' = Null
    /\ outcome' = Null
    /\ draws' = <<>>
    /\ running' = {}
    /\ calls' = <<>>
    /\ published' = <<>>
    /\ UNCHANGED <<interrupts, config, ambient, evaluation, inflight, locals,
                   sunk, scopes, tally, chained>>

\* Every callable answers in this call as it answered at the same place in
\* the call kept, and the draw is the same.
Replayed ==
    previous # Null
    => /\ \A k \in DOMAIN calls :
             (k <= Len(previous.calls) /\ previous.calls[k].op = calls[k].op)
             => calls[k].out = previous.calls[k].out
       /\ (draws # <<>> /\ previous.draws # <<>>) => draws = previous.draws

\* An experiment with the default comparator is configured, run() is called
\* and then async_run(), with callables and a draw that do in the second call
\* what they did in the first.
NextAsync ==
    \/ /\ previous = Null
       /\ \/ use \/ try_ \/ raise_on_mismatches \/ ignore \/ before_run \/ clean
          \/ publish("instance") \/ run_if \/ enabled(FALSE)
    \/ previous = Null /\ run("run")
    \/ previous # Null /\ run("async_run")
    \/ Step /\ pc # "done" /\ Replayed'
    \/ keep

SpecAsync == Init /\ [][NextAsync]_vars

----------------------------------------------------------------------------
\* An experiment is configured and run() is called on it twice, with
\* callables and a draw that do in the second call what they did in the first.
NextRerun ==
    \/ /\ previous = Null
       /\ \/ use \/ try_ \/ raise_on_mismatches \/ ignore \/ before_run \/ clean
          \/ publish("instance") \/ run_if \/ enabled(FALSE)
    \/ run("run")
    \/ Step /\ pc # "done" /\ Replayed'
    \/ keep

SpecRerun == Init /\ [][NextRerun]_vars

\* The functions of the library called on their own.

\* What a behaviour handed to observe may do: it may return None too.
AnyBehaviourOutcomes ==
    [kind : {"return"}, value : Values \cup {None}]
       \cup [kind : {"raise"}, type : ExcTypes]

\* observe / async_observe, lines 69-70 and 95-96: the behaviour is called
\* in one statement, which no loop contains.
InvocationsByObserve == 1

\* observe(name, behavior) or async_observe(name, behavior) is called.
apply_observe ==
    /\ \E name \in {"control", "candidate"}, o \in AnyBehaviourOutcomes,
          fn \in {"observe", "async_observe"} :
          evaluation' =
             [fn |-> fn, name |-> name, behavior |-> o,
              invoked |-> InvocationsByObserve,
              gave |-> IF fn = "observe"
                       THEN Return(observe(name, o))
                       ELSE Return(async_observe(name, o))]
    /\ UNCHANGED <<config, ambient, frame, seen, interrupts, previous, tally, chained,
                   inflight, locals, sunk, scopes>>

\* CompositePublisher.__init__: the number of child sinks the fan-out sink
\* is built with, at most.
MaxChildren == 3

\* The Results handed to a sink called on its own.
Results == {"result1", "result2"}

\* Mutant of Swallowed: the loop has no handler.
SwallowedNever(type) == FALSE

\* CompositePublisher.publish, lines 26-27: except Exception: pass.
Swallowed(type) == CaughtByExceptException(type)

\* CompositePublisher.publish, lines 23-27: the loop over self.publishers,
\* from child k on.  publishers[k] is what child k's publish does; received
\* is the calls of the children's publish made so far.
RECURSIVE forward(_, _, _, _)
forward(publishers, k, res, received) ==
    IF k > Len(publishers)
    THEN [received |-> received, gave |-> Return(None)]
    ELSE LET called == Append(received, [child |-> k, result |-> res])
         IN  IF publishers[k] = "ok" \/ Swallowed(publishers[k])
             THEN forward(publishers, k + 1, res, called)
             ELSE [received |-> called, gave |-> Raise(publishers[k])]

\* What a child sink's publish may do: return, or raise an ordinary or a
\* foundational exception.
ChildOutcomes == {"ok", Ordinary, Foundational}

\* CompositePublisher(*publishers).publish(result) is called.
composite_publish ==
    /\ \E n \in 0..MaxChildren :
          \E publishers \in [1..n -> ChildOutcomes], res \in Results :
             evaluation' =
                [fn |-> "CompositePublisher.publish",
                 publishers |-> publishers, result |-> res,
                 did |-> forward(publishers, 1, res, <<>>)]
    /\ UNCHANGED <<config, ambient, frame, seen, interrupts, previous, tally, chained,
                   inflight, locals, sunk, scopes>>

\* percent_difference_comparator, line 39: the threshold is a fraction;
\* the thresholds of the model are hundredths.
Scale == 100

\* The thresholds (0.0, 0.1 and 1.0) and the numbers compared.
Thresholds == {0, 10, 100}
Numbers == {-110, -100, 0, 5, 100, 105, 110, 120}

\* abs()
Abs(x) == IF x < 0 THEN -x ELSE x

\* A quotient n / d of two numbers, d > 0, kept exact.
Ratio(n, d) == [num |-> n, den |-> d]

\* Mutant of AtMost: the boundary is excluded.
Below(p, q) == p.num * q.den < q.num * p.den

\* p <= q for two quotients.
AtMost(p, q) == p.num * q.den <= q.num * p.den

\* percent_difference_comparator(threshold).compare(control, candidate),
\* lines 42-47.
percent_difference_comparator(threshold, control, candidate) ==
    IF control = 0 /\ candidate = 0 THEN TRUE
    ELSE IF control = 0 \/ candidate = 0 THEN FALSE
    ELSE AtMost(Ratio(Abs(control - candidate), Abs(control)), threshold)

\* percent_difference_comparator(threshold).compare(control, candidate) is
\* called.
apply_percent_difference ==
    /\ \E t \in Thresholds, control \in Numbers, candidate \in Numbers :
          evaluation' =
             [fn |-> "percent_difference_comparator",
              threshold |-> Ratio(t, Scale),
              control |-> control, candidate |-> candidate,
              gave |-> percent_difference_comparator(Ratio(t, Scale),
                                                     control, candidate)]
    /\ UNCHANGED <<config, ambient, frame, seen, interrupts, previous, tally, chained,
                   inflight, locals, sunk, scopes>>

\* The entity identifiers, the salts (experiment names) and the percentages
\* the gates are built with.
Entities == {"user-15379", "user-21531", "user-5925"}
Salts == {"", "exp"}
Percents == {0, 50, 100}

\* entity_gate, line 39: key = f"{salt}:{entity_id}" if salt else entity_id
key_of(salt, entity_id) ==
    IF salt # "" THEN salt \o ":" \o entity_id ELSE entity_id

\* entity_gate, line 40: int(hashlib.sha256(key.encode()).hexdigest(), 16)
\* % 100, for the keys of the model.
bucket_of(key) ==
    CASE key = "user-15379" -> 0
      [] key = "user-21531" -> 99
      [] key = "user-5925" -> 49
      [] key = "exp:user-15379" -> 99
      [] key = "exp:user-21531" -> 0
      [] key = "exp:user-5925" -> 50

\* Mutant of below: the bucket equal to percent is let in.
below_or_at(bucket, percent) == bucket <= percent

\* entity_gate, line 41: enabled = bucket < percent
below(bucket, percent) == bucket < percent

\* entity_gate(entity_id, percent=percent, salt=salt), lines 39-42: the gate
\* returned is a closure over enabled.
entity_gate(entity_id, percent, salt) ==
    [bucket |-> bucket_of(key_of(salt, entity_id)),
     enabled |-> below(bucket_of(key_of(salt, entity_id)), percent)]

\* gate(): lambda: enabled
call_gate(g) == g.enabled

\* A gate built with these arguments and called twice.
BuiltAndCalled(entity_id, percent, salt) ==
    LET g == entity_gate(entity_id, percent, salt)
    IN  [entity_id |-> entity_id, percent |-> percent, salt |-> salt,
         bucket |-> g.bucket, returned |-> <<call_gate(g), call_gate(g)>>]

\* Two gates are built with entity_gate and each is called twice.
apply_entity_gate ==
    /\ \E e1 \in Entities, e2 \in Entities, p1 \in Percents, p2 \in Percents,
          s1 \in Salts, s2 \in Salts :
          evaluation' =
             [fn |-> "entity_gate",
              gates |-> <<BuiltAndCalled(e1, p1, s1),
                          BuiltAndCalled(e2, p2, s2)>>]
    /\ UNCHANGED <<config, ambient, frame, seen, interrupts, previous, tally, chained,
                   inflight, locals, sunk, scopes>>

\* Experiment(name).run_if_entity(entity_id, percent=percent), lines 76-87:
\* the gate installed is entity_gate's, with the experiment's name as salt;
\* it is called twice.
run_if_entity ==
    /\ pc = "idle"
    /\ \E name \in Salts, entity_id \in Entities, percent \in Percents :
          evaluation' =
             [fn |-> "run_if_entity", name |-> name,
              gates |-> <<BuiltAndCalled(entity_id, percent, name)>>]
    /\ _run_if_fn' = Fn
    /\ UNCHANGED <<_control, _candidate, _comparator, _publisher, _enabled,
                   _ignore_filters, _before_run_hooks, _clean_fn,
                   _raise_on_mismatches, ambient, frame, seen, interrupts,
                   previous, tally, chained, inflight, locals, sunk, scopes>>

\* The number of elements a collection handed to group_gate has, at most.
MaxItems == 2

\* The groups, and the collections of groups: a list holds its elements in
\* order and may hold one twice, a set holds each once.
Groups == {"beta", "internal", "premium"}
Lists ==
    UNION {[1..n -> Groups] : n \in 0..MaxItems}
Collections ==
    [kind : {"list"}, items : Lists]
       \cup [kind : {"set"},
             items : {l \in Lists :
                         \A n, m \in DOMAIN l : l[n] = l[m] => n = m}]

\* set(collection)
set_of(collection) == {collection.items[n] : n \in DOMAIN collection.items}

\* bool(a set)
bool_of(s) == s # {}

\* Mutant of intersection: the union is taken.
union(a, b) == a \cup b

\* group_gate, line 61: set(allowed) & set(actual)
intersection(a, b) == a \cap b

\* group_gate(allowed=allowed, actual=actual), lines 61-62: the gate returned
\* is a closure over matched.
group_gate(allowed, actual) ==
    [matched |-> bool_of(intersection(set_of(allowed), set_of(actual)))]

\* gate(): lambda: matched
call_group_gate(g) == g.matched

\* A gate is built with group_gate and called twice.
apply_group_gate ==
    /\ \E allowed \in Collections, actual \in Collections :
          LET g == group_gate(allowed, actual)
          IN  evaluation' =
                 [fn |-> "group_gate", allowed |-> allowed, actual |-> actual,
                  returned |-> <<call_group_gate(g), call_group_gate(g)>>]
    /\ UNCHANGED <<config, ambient, frame, seen, interrupts, previous, tally, chained,
                   inflight, locals, sunk, scopes>>

\* Result(...) is constructed, by any code, with any two Observations and any
\* combination of the two flags, and its three properties are read.
apply_result ==
    /\ \E c \in AnyBehaviourOutcomes, d \in AnyBehaviourOutcomes,
          matched \in BOOLEAN, ignored \in BOOLEAN :
          LET r == Result(observe("control", c), observe("candidate", d),
                          matched, ignored)
          IN  evaluation' =
                 [fn |-> "Result", result |-> r,
                  mismatched |-> mismatched(r),
                  ignored_mismatch |-> ignored_mismatch(r),
                  unexpected_mismatch |-> unexpected_mismatch(r)]
    /\ UNCHANGED <<config, ambient, frame, seen, interrupts, previous, tally, chained,
                   inflight, locals, sunk, scopes>>

NextLibrary ==
    \/ apply_observe
    \/ composite_publish
    \/ apply_percent_difference
    \/ apply_entity_gate
    \/ run_if_entity
    \/ apply_group_gate
    \/ apply_result

SpecLibrary == Init /\ [][NextLibrary]_vars

----------------------------------------------------------------------------
\* Calls of run() / async_run() in progress at the same time, in threads or
\* in tasks, on one experiment that is configured and no longer changed.

\* How many calls are in progress at the same time.
MaxCalls == 2
CallIds == 1 .. MaxCalls

\* The local variables of a call of run(): control_obs, candidate_obs, result.
NoLocals == [control_obs |-> Null, candidate_obs |-> Null, result |-> Null]

\* The experiment as constructed, and no call in progress.
InitConcurrent ==
    /\ InitExperiment
    /\ interrupts = FALSE

\* Mutant of FrameOf: the Observations are kept on the experiment.
FrameOnExperiment(t) == 1

\* run, lines 206-212: control_obs, candidate_obs and result are local
\* variables, so each call has its own.
FrameOf(t) == t

\* The owner of the experiment sets both behaviours and a publisher, and
\* raise-on-mismatch mode or not; from then on the experiment is only run.
configured ==
    /\ pc = "idle" /\ inflight = <<>>
    /\ \E flag \in BOOLEAN :
          /\ _control' = Fn
          /\ _candidate' = Fn
          /\ _publisher' = "instance"
          /\ _raise_on_mismatches' = flag
    /\ pc' = "concurrent"
    /\ inflight' = [t \in CallIds |->
                       [pc |-> "idle", draw |-> None, control |-> Null,
                        candidate |-> Null, outcome |-> Null]]
    /\ locals' = [t \in CallIds |-> NoLocals]
    /\ UNCHANGED <<_comparator, _run_if_fn, _enabled, _ignore_filters,
                   _before_run_hooks, _clean_fn, ambient, mode, i, control_obs,
                   candidate_obs, result, outcome, draws, running, seen,
                   interrupts, previous, tally, chained, evaluation, sunk, scopes>>

\* run, lines 190-205, in call t: the experiment is enabled, has no gate
\* and no hook, and both behaviours are set; the draw is made.
concurrent_run(t) ==
    /\ pc = "concurrent" /\ inflight[t].pc = "idle"
    /\ \E draw \in {Half - 1, Half} :
          inflight' = [inflight EXCEPT ![t].pc = "first", ![t].draw = draw]
    /\ UNCHANGED <<config, ambient, frame, seen, interrupts, previous, tally, chained,
                   evaluation, scopes, locals, sunk>>

\* What a behaviour may do in a call made among others: return a value or
\* raise an ordinary exception.
ConcurrentOutcomes == {o \in BehaviourOutcomes : Did(o) # Foundational}

\* The behaviour called in call t does o, and its Observation is bound to
\* the local variable of the call.
ConcurrentObserved(t, name, o) ==
    IF name = "control"
    THEN /\ locals' = [locals EXCEPT ![FrameOf(t)].control_obs = observe(name, o)]
         /\ inflight' = [inflight EXCEPT
                            ![t].control = o,
                            ![t].pc = IF @ = "first" THEN "second" ELSE "build"]
    ELSE /\ locals' = [locals EXCEPT ![FrameOf(t)].candidate_obs = observe(name, o)]
         /\ inflight' = [inflight EXCEPT
                            ![t].candidate = o,
                            ![t].pc = IF @ = "first" THEN "second" ELSE "build"]

\* run, lines 206 and 209, in call t.
concurrent_first(t) ==
    /\ pc = "concurrent" /\ inflight[t].pc = "first"
    /\ \E o \in ConcurrentOutcomes :
          ConcurrentObserved(t, FirstOf(inflight[t].draw), o)
    /\ UNCHANGED <<config, ambient, frame, seen, interrupts, previous, tally, chained,
                   evaluation, scopes, sunk>>

\* run, lines 207 and 210, in call t.
concurrent_second(t) ==
    /\ pc = "concurrent" /\ inflight[t].pc = "second"
    /\ \E o \in ConcurrentOutcomes :
          ConcurrentObserved(t, SecondOf(inflight[t].draw), o)
    /\ UNCHANGED <<config, ambient, frame, seen, interrupts, previous, tally, chained,
                   evaluation, scopes, sunk>>

\* run, line 212, in call t: _build_result with the default comparator and
\* no filter.
concurrent_build_result(t) ==
    /\ pc = "concurrent" /\ inflight[t].pc = "build"
    /\ LET c == locals[FrameOf(t)].control_obs
           d == locals[FrameOf(t)].candidate_obs
       IN  locals' = [locals EXCEPT ![FrameOf(t)].result =
                         Result(c, d,
                                _compare_observations(c, d,
                                   c.value = d.value),
                                FALSE)]
    /\ inflight' = [inflight EXCEPT ![t].pc = "finish"]
    /\ UNCHANGED <<config, ambient, frame, seen, interrupts, previous, tally, chained,
                   evaluation, scopes, sunk>>

\* run, line 213, in call t: _finish(result, control_obs) publishes the
\* Result and decides what the call hands back.
concurrent_finish(t) ==
    /\ pc = "concurrent" /\ inflight[t].pc = "finish"
    /\ sunk' = Append(sunk, [by |-> t, to |-> _get_publisher,
                             result |-> locals[FrameOf(t)].result])
    /\ inflight' = [inflight EXCEPT
                       ![t].pc = "done",
                       ![t].outcome = Decide(locals[FrameOf(t)].result,
                                             locals[FrameOf(t)].control_obs)]
    /\ UNCHANGED <<config, ambient, frame, seen, interrupts, previous, tally, chained,
                   evaluation, scopes, locals>>

NextConcurrent ==
    \/ configured
    \/ \E t \in CallIds :
          \/ concurrent_run(t)
          \/ concurrent_first(t)
          \/ concurrent_second(t)
          \/ concurrent_build_result(t)
          \/ concurrent_finish(t)

SpecConcurrent == InitConcurrent /\ [][NextConcurrent]_vars

----------------------------------------------------------------------------
\* context.py in a process with several threads and tasks.  A ContextVar
\* holds one value per execution context: a thread starts with an empty
\* context, a task with a copy of the context of the code that creates it.

\* Mutant of CellOf: one cell for the whole process.
CellOfProcess(c) == 1

\* ContextVar.get / ContextVar.set work on the current context.
CellOf(c) == c

\* get_default_publisher() called in context c: the ContextVar's default
\* is None.
get_default_publisher_in(c) ==
    IF scopes.vars[CellOf(c)].publisher = Unset
    THEN None ELSE scopes.vars[CellOf(c)].publisher

\* get_default_enabled() called in context c: the ContextVar's default is
\* True.
get_default_enabled_in(c) ==
    IF scopes.vars[CellOf(c)].enabled = Unset
    THEN True ELSE scopes.vars[CellOf(c)].enabled

\* set_default_publisher(publisher) called in context c.
set_default_publisher_in(c, publisher) ==
    /\ c \in scopes.alive
    /\ scopes' = [scopes EXCEPT !.vars[CellOf(c)].publisher = publisher,
                                !.own[c].publisher = publisher,
                                !.written.publisher = publisher]
    /\ UNCHANGED <<config, ambient, frame, seen, interrupts, previous, tally, chained,
                   evaluation, inflight, locals, sunk>>

\* set_default_enabled(enabled) called in context c.
set_default_enabled_in(c, value) ==
    /\ c \in scopes.alive
    /\ scopes' = [scopes EXCEPT !.vars[CellOf(c)].enabled = value,
                                !.own[c].enabled = value,
                                !.written.enabled = value]
    /\ UNCHANGED <<config, ambient, frame, seen, interrupts, previous, tally, chained,
                   evaluation, inflight, locals, sunk>>

\* Code running in context c starts a thread: the thread's context c2 is
\* empty.
start_thread(c, c2) ==
    /\ c \in scopes.alive /\ c2 \notin scopes.alive
    /\ scopes' = [scopes EXCEPT !.alive = @ \cup {c2},
                                !.vars[c2] = EmptyContext,
                                !.born[c2] = EmptyContext]
    /\ UNCHANGED <<config, ambient, frame, seen, interrupts, previous, tally, chained,
                   evaluation, inflight, locals, sunk>>

\* Code running in context c creates a task: the task's context c2 is a
\* copy of c.
create_task(c, c2) ==
    /\ c \in scopes.alive /\ c2 \notin scopes.alive
    /\ scopes' = [scopes EXCEPT !.alive = @ \cup {c2},
                                !.vars[c2] = scopes.vars[CellOf(c)],
                                !.born[c2] = scopes.vars[CellOf(c)]]
    /\ UNCHANGED <<config, ambient, frame, seen, interrupts, previous, tally, chained,
                   evaluation, inflight, locals, sunk>>

\* _is_enabled() and _get_publisher() of an experiment run in context c.
_is_enabled_in(c) ==
    IF _enabled # None THEN _enabled = True ELSE get_default_enabled_in(c) = True

_get_publisher_in(c) ==
    IF Truthy(_publisher) THEN _publisher
    ELSE IF Truthy(get_default_publisher_in(c)) THEN get_default_publisher_in(c)
    ELSE "NoopPublisher"

NextAmbient ==
    \E c \in ContextIds :
       \/ \E publisher \in {None, "default"} :
             set_default_publisher_in(c, publisher)
       \/ \E value \in {True, False} : set_default_enabled_in(c, value)
       \/ \E c2 \in ContextIds : start_thread(c, c2)
       \/ \E c2 \in ContextIds : create_task(c, c2)

SpecAmbient == Init /\ [][NextAmbient]_vars

----------------------------------------------------------------------------
\* async_run() on an experiment whose hooks or sink may be coroutine
\* functions (async def): calling one runs none of its body and gives a
\* coroutine object, whose body runs only when the object is awaited.

\* What a call of a coroutine function gives.
Coroutine == "coroutine"

\* async_run, lines 234-235: hook i is a coroutine function; hook() is an
\* expression statement with no await, so the coroutine object is dropped
\* and the loop goes on.
hook_coroutine ==
    /\ pc = "hooks" /\ mode = "async_run"
    /\ calls' = Append(calls, Call("before_run", _before_run_hooks[i], Coroutine))
    /\ IF i < Len(_before_run_hooks)
       THEN pc' = "hooks" /\ i' = i + 1 /\ outcome' = Null
       ELSE i' = 0 /\ Require
    /\ UNCHANGED <<interrupts, apart, config, ambient, mode, control_obs,
                   candidate_obs, result, published, draws, running>>

\* _finish, lines 174-186, called at line 251: the sink's publish is a
\* coroutine function; publisher.publish(result) has no await, so the
\* coroutine object is dropped, no part of publish has run, and the decision
\* is taken.
_finish_coroutine ==
    /\ pc = "finish" /\ mode = "async_run"
    /\ _get_publisher # "NoopPublisher"
    /\ calls' = Append(calls, Call("publish", 0, Coroutine))
    /\ LeaveTry(Decide(result, control_obs))
    /\ UNCHANGED <<interrupts, apart, config, ambient, mode, i, control_obs,
                   candidate_obs, result, published, draws, running>>

NextSuspending ==
    \/ use \/ try_ \/ before_run \/ publish("instance") \/ clean
    \/ run("async_run")
    \/ hook \/ hook_coroutine
    \/ draw_order \/ first \/ observe_second \/ second
    \/ _build_result \/ _finish \/ _finish_coroutine \/ finally \/ deliver

SpecSuspending == Init /\ [][NextSuspending]_vars

----------------------------------------------------------------------------
\* Chains of configuration calls, each with the object it is given.

\* How many configuration calls a chain has, at most.
MaxChain == 3

\* The objects handed to the configuration methods: two of each kind.
Callables == {"f", "g"}

\* return self
Self == "self"

\* The gate made by one of the factories of gates.py for an argument.
closure(factory, arg) == factory \o "(" \o arg \o ")"

\* Mutant of installed: a gate already set is kept.
installed_unless_set(old, new) == IF old = None THEN new ELSE old

\* self._run_if_fn = ...: the assignment replaces what the field held.
installed(old, new) == new

\* A configuration method is called with arg: the call is recorded with what
\* it returns, and the fields the method does not assign are left alone.
chain(method, arg, assigned) ==
    /\ pc = "idle"
    /\ Len(chained) < MaxChain
    /\ chained' = Append(chained,
                         [method |-> method, arg |-> arg, returned |-> Self])
    /\ IF "_control" \in assigned THEN TRUE ELSE UNCHANGED _control
    /\ IF "_candidate" \in assigned THEN TRUE ELSE UNCHANGED _candidate
    /\ IF "_comparator" \in assigned THEN TRUE ELSE UNCHANGED _comparator
    /\ IF "_publisher" \in assigned THEN TRUE ELSE UNCHANGED _publisher
    /\ IF "_run_if_fn" \in assigned THEN TRUE ELSE UNCHANGED _run_if_fn
    /\ IF "_enabled" \in assigned THEN TRUE ELSE UNCHANGED _enabled
    /\ IF "_ignore_filters" \in assigned
       THEN TRUE ELSE UNCHANGED _ignore_filters
    /\ IF "_before_run_hooks" \in assigned
       THEN TRUE ELSE UNCHANGED _before_run_hooks
    /\ IF "_clean_fn" \in assigned THEN TRUE ELSE UNCHANGED _clean_fn
    /\ IF "_raise_on_mismatches" \in assigned
       THEN TRUE ELSE UNCHANGED _raise_on_mismatches
    /\ UNCHANGED <<ambient, frame, seen, interrupts, previous, tally,
                   evaluation, inflight, locals, sunk, scopes>>

\* use(control), lines 51-54
call_use(control) ==
    /\ _control' = control
    /\ chain("use", control, {"_control"})

\* try_(candidate), lines 56-59
call_try_(candidate) ==
    /\ _candidate' = candidate
    /\ chain("try_", candidate, {"_candidate"})

\* compare(comparator), lines 61-64
call_compare(comparator) ==
    /\ _comparator' = comparator
    /\ chain("compare", comparator, {"_comparator"})

\* publish(publisher), lines 66-69
call_publish(publisher) ==
    /\ _publisher' = publisher
    /\ chain("publish", publisher, {"_publisher"})

\* run_if(fn), lines 71-74
call_run_if(fn) ==
    /\ _run_if_fn' = installed(_run_if_fn, fn)
    /\ chain("run_if", fn, {"_run_if_fn"})

\* run_if_entity(entity_id, percent=...), lines 76-87
call_run_if_entity(entity_id) ==
    /\ _run_if_fn' = installed(_run_if_fn, closure("entity_gate", entity_id))
    /\ chain("run_if_entity", entity_id, {"_run_if_fn"})

\* run_if_group(allowed=..., actual=...), lines 89-96
call_run_if_group(actual) ==
    /\ _run_if_fn' = installed(_run_if_fn, closure("group_gate", actual))
    /\ chain("run_if_group", actual, {"_run_if_fn"})

\* run_if_percent(percent), lines 98-103
call_run_if_percent(percent) ==
    /\ _run_if_fn' = installed(_run_if_fn, closure("request_gate", percent))
    /\ chain("run_if_percent", percent, {"_run_if_fn"})

\* enabled(value), lines 105-108
call_enabled(value) ==
    /\ _enabled' = value
    /\ chain("enabled", value, {"_enabled"})

\* ignore(fn), lines 110-113
call_ignore(fn) ==
    /\ _ignore_filters' = Append(_ignore_filters, fn)
    /\ chain("ignore", fn, {"_ignore_filters"})

\* before_run(fn), lines 115-118
call_before_run(fn) ==
    /\ _before_run_hooks' = Append(_before_run_hooks, fn)
    /\ chain("before_run", fn, {"_before_run_hooks"})

\* clean(fn), lines 120-123
call_clean(fn) ==
    /\ _clean_fn' = fn
    /\ chain("clean", fn, {"_clean_fn"})

\* raise_on_mismatches(), lines 125-128
call_raise_on_mismatches ==
    /\ _raise_on_mismatches' = TRUE
    /\ chain("raise_on_mismatches", None, {"_raise_on_mismatches"})

NextChain ==
    \/ \E fn \in Callables :
          \/ call_use(fn) \/ call_try_(fn) \/ call_compare(fn)
          \/ call_publish(fn) \/ call_run_if(fn) \/ call_ignore(fn)
          \/ call_before_run(fn) \/ call_clean(fn)
    \/ \E value \in {True, False} : call_enabled(value)
    \/ call_run_if_entity("user-5925")
    \/ call_run_if_group("beta")
    \/ call_run_if_percent("50")
    \/ call_raise_on_mismatches

SpecChain == Init /\ [][NextChain]_vars

\* The experiment of Spec in a process where a foundational exception may be
\* raised inside the publisher and inside the cleanup function.
SpecInterrupts == InitInterrupts /\ [][Next]_vars

----------------------------------------------------------------------------
\* The claims.  They are stated on what the caller and the caller-supplied
\* code can see: the configuration as the caller set it, the calls made into
\* caller-supplied code (calls), what the publisher received (published) and
\* what the call hands back (outcome, once pc = "done").

CallsOf(op) == {k \in DOMAIN calls : calls[k].op = op}
Count(op) == Cardinality(CallsOf(op))
Answered(op, v) == \E k \in CallsOf(op) : calls[k].out = v

\* The experiment is disabled: explicit flag false, or no explicit flag and
\* the ambient default false.
Disabled ==
    \/ _enabled = False
    \/ _enabled = None /\ _default_enabled_context = FALSE

\* The run is skipped: disabled, or the gate answered false.
Skipped == pc # "idle" /\ (Disabled \/ Answered("run_if", False))

\* The run is enabled and gated in (no gate, or the gate answered true).
GatedIn ==
    /\ pc # "idle"
    /\ ~Disabled
    /\ _run_if_fn = None \/ Answered("run_if", True)

HookFailed == \E k \in CallsOf("before_run") : calls[k].out # "ok"

\* The run is executed: enabled, gated in, both behaviours set, hooks succeeded.
Executed ==
    /\ GatedIn
    /\ _control # None /\ _candidate # None
    /\ ~HookFailed
    /\ pc \notin {"gate", "hooks"}

ControlSucceeded == control_obs # Null /\ control_obs.exception = Null
ControlFailed == control_obs # Null /\ control_obs.exception # Null

IsMismatchFailure(out) ==
    out.kind = "raise" /\ out.exc.type = "ExperimentMismatchError"

\* An error of caller-supplied code other than the behaviours left run():
\* an ignore filter raised, or the publisher or the cleanup function raised
\* a foundational exception.
Escaped ==
    \/ Answered("ignore", Ordinary)
    \/ Answered("publish", Foundational)
    \/ Answered("clean", Foundational)

\* C1: Transparency.  In every enabled, gated-in run with both behaviours
\* set, no failing hook and raise-on-mismatch off, if control succeeds with
\* value V then run() returns V, whatever the candidate did, whatever verdict
\* the comparator gave and whichever behaviour was called first.
C1_Transparency ==
    (/\ pc = "done"
     /\ Executed
     /\ ~_raise_on_mismatches
     /\ ControlSucceeded
     /\ ~Answered("compare", Ordinary))
    => outcome = Return(control_obs.value)

\* C2 as claimed: in every enabled, gated-in run in which control raises E,
\* the error that reaches the caller is E itself, for every setting of the
\* comparator, the ignore filters and the raise-on-mismatch flag.  It is
\* stated here on the runs in which no error of an ignore filter, the
\* publisher or the cleanup function leaves run(), where it fails already.
C2_ControlFailurePropagates ==
    (pc = "done" /\ GatedIn /\ ControlFailed /\ ~Escaped)
    => outcome = Raise(control_obs.exception)

\* C2 as amended: in every enabled, gated-in run in which control raises E,
\* run() raises; what it raises is the mismatch failure when raise-on-mismatch
\* is on and the Result is an unexpected mismatch, and E itself otherwise,
\* unless the error of an ignore filter, or a foundational error of the
\* publisher or the cleanup function, left run() first.
C2_ControlFailureOrMismatch ==
    (pc = "done" /\ GatedIn /\ ControlFailed)
    => /\ outcome.kind = "raise"
       /\ IF Escaped
          THEN outcome.exc.by \in {"ignore", "publish", "clean"}
          ELSE IF _raise_on_mismatches /\ ~result.matched /\ ~result.ignored
          THEN outcome = Raise(ExperimentMismatchError(result))
          ELSE outcome = Raise(control_obs.exception)

\* C2 witness: control raised, raise-on-mismatch is on, the mismatch was
\* ignored by a filter, and the caller receives control's own failure.
C2_Witness ==
    /\ pc = "done" /\ GatedIn /\ ControlFailed
    /\ _raise_on_mismatches
    /\ result # Null /\ ~result.matched /\ result.ignored
    /\ outcome = Raise(control_obs.exception)

\* C3: Gate skip.  If the experiment is disabled or the gate answers false,
\* the candidate is never called during that run() or async_run(), and the
\* call returns the value control returned.
C3_GateSkip ==
    Skipped
    => /\ Count("candidate") = 0
       /\ candidate_obs = Null
       /\ \A k \in CallsOf("control") :
             (pc = "done" /\ calls[k].out \in Values)
             => outcome = Return(calls[k].out)

\* C3 witness: an async_run() with no explicit flag and the ambient default
\* false, a candidate set, and control's value returned.
C3_Witness ==
    /\ pc = "done" /\ mode = "async_run"
    /\ _enabled = None /\ _default_enabled_context = FALSE
    /\ _candidate # None
    /\ Count("control") = 1
    /\ outcome.kind = "return"

\* What run() hands back when the publisher does not fail: the mismatch
\* failure in raise-on-mismatch mode on an unexpected mismatch, control's
\* outcome otherwise; a foundational error of the cleanup function replaces it.
OutcomeWithoutSinkFailure ==
    IF Answered("clean", Foundational)
    THEN Raise(Exc(Foundational, "clean"))
    ELSE IF _raise_on_mismatches /\ ~result.matched /\ ~result.ignored
    THEN Raise(ExperimentMismatchError(result))
    ELSE IF control_obs.exception # Null
    THEN Raise(control_obs.exception)
    ELSE Return(control_obs.value)

C5_CleanupOnce ==
    /\ Count("clean") <= 1
    /\ (pc = "done" /\ Executed /\ _clean_fn # None)
       => /\ Count("clean") = 1
          /\ calls[Len(calls)].op = "clean"

\* C5 witness: run() with a cleanup function set raises the mismatch failure
\* after one call of the cleanup function.
C5_Witness ==
    /\ pc = "done" /\ Executed /\ _clean_fn # None
    /\ IsMismatchFailure(outcome)
    /\ Count("clean") = 1

C7_MismatchSuppression ==
    \A n \in DOMAIN published :
       LET r == published[n].result
       IN  ~r.matched
           => IF Answered("ignore", True)
              THEN r.ignored /\ mismatched(r) /\ ~unexpected_mismatch(r)
                   /\ ignored_mismatch(r)
              ELSE ~r.ignored /\ unexpected_mismatch(r)

\* C7 witness: the first of two filters answered false, the second true, and
\* the sink received a mismatched Result with ignored true.
C7_Witness ==
    /\ published # <<>>
    /\ ~published[1].result.matched /\ published[1].result.ignored
    /\ Count("ignore") = 2
    /\ Answered("ignore", False)

\* C8: Result invariant.  Every Result built by a run has ignored true only
\* if it is mismatched.
C8_IgnoredOnlyIfMismatched ==
    /\ result # Null => (result.ignored => ~result.matched)
    /\ \A n \in DOMAIN published :
          published[n].result.ignored => ~published[n].result.matched

\* C9: Configuration failure.  When the run is enabled and gated in and the
\* control or the candidate is unset, run() raises the configuration failure
\* before anything executes: no hook, no behaviour, no comparison and no
\* sink submission happens in that call.
C9_ConfigurationFailureFirst ==
    (/\ pc = "done"
     /\ GatedIn
     /\ _control = None \/ _candidate = None)
    => /\ outcome = Raise(ConfigurationFailure)
       /\ \A k \in DOMAIN calls : calls[k].op = "run_if"
       /\ published = <<>>

\* C10: Skipped run.  When enablement or the gate disables the run, only the
\* control is required (an unset control is a configuration failure), the
\* control is called exactly once, its value or its failure is what the
\* caller receives, and there is no Observation, no comparison, no filter
\* call and no sink submission.
C10_SkippedRun ==
    (pc = "done" /\ Skipped)
    => /\ Count("candidate") = 0 /\ Count("compare") = 0
       /\ Count("ignore") = 0 /\ Count("publish") = 0
       /\ published = <<>>
       /\ control_obs = Null /\ candidate_obs = Null /\ result = Null
       /\ IF _control = None
          THEN Count("control") = 0 /\ outcome = Raise(ConfigurationFailure)
          ELSE /\ Count("control") = 1
               /\ LET c == calls[Len(calls)]
                  IN  /\ c.op = "control"
                      /\ outcome = IF c.out \in Values
                                   THEN Return(c.out)
                                   ELSE Raise(Exc(c.out, "control"))

\* C10 witness: the gate answered false in an async_run() of an experiment
\* with no candidate, with filters and a publisher set, and the caller
\* receives control's failure.
C10_Witness ==
    /\ pc = "done" /\ mode = "async_run"
    /\ Answered("run_if", False)
    /\ _candidate = None
    /\ _ignore_filters # <<>> /\ _publisher # None
    /\ outcome.kind = "raise" /\ outcome.exc.by = "control"

\* What a finished call shows of the route it took.  The enabled route asks
\* the gate when one is set, and otherwise requires both behaviours and calls
\* the candidate; the disabled route asks no gate, calls no candidate and
\* calls the control directly, with no Observation.
TookEnabledRoute ==
    IF _run_if_fn # None THEN Count("run_if") = 1
    ELSE IF _control # None /\ _candidate # None THEN Count("candidate") = 1
    ELSE Count("control") = 0 /\ outcome = Raise(ConfigurationFailure)

TookDisabledRoute ==
    /\ Count("run_if") = 0 /\ Count("candidate") = 0
    /\ IF _control # None
       THEN Count("control") = 1 /\ control_obs = Null
       ELSE outcome = Raise(ConfigurationFailure)

\* C11: Enablement precedence.  An explicit enabled flag, true or false,
\* decides enablement whatever the ambient default is; with no explicit flag
\* the ambient default decides; the ambient default is true until it is set,
\* so with neither set the experiment is enabled.
C11_EnablementPrecedence ==
    pc = "done"
    => CASE _enabled = True -> TookEnabledRoute
         [] _enabled = False -> TookDisabledRoute
         [] OTHER -> IF _default_enabled_context
                     THEN TookEnabledRoute ELSE TookDisabledRoute

\* C11 witness: enabled(True) with the ambient default false, and the
\* candidate was called.
C11_Witness ==
    /\ pc = "done"
    /\ _enabled = True /\ _default_enabled_context = FALSE
    /\ Count("candidate") = 1

\* Both behaviours of an executed run have been observed.
BothObserved == control_obs # Null /\ candidate_obs # Null

\* The position in calls of the only call of op.
CallOf(op) == CHOOSE k \in CallsOf(op) : TRUE

\* C12: Execution order.  In every executed run, in run() and async_run(),
\* one random draw is made per call; a draw below 0.5 has the control called
\* and finished before the candidate, any other draw the candidate before the
\* control; each behaviour is called once; and the second behaviour starts
\* only after the first has finished, so at most one behaviour is being
\* executed at any time.
C12_ExecutionOrder ==
    /\ Len(draws) <= 1
    /\ Cardinality(running) <= 1
    /\ Count("control") <= 1 /\ Count("candidate") <= 1
    /\ running # {} => pc \in {"first_running", "second_running"}
    /\ pc = "second_running"
       => /\ Len(draws) = 1
          /\ running = {SecondOf(draws[1])}
          /\ Count(FirstOf(draws[1])) = 1 /\ Count(SecondOf(draws[1])) = 0
          /\ IF ControlFirst(draws[1])
             THEN control_obs # Null /\ candidate_obs = Null
             ELSE candidate_obs # Null /\ control_obs = Null
    /\ BothObserved
       => /\ Len(draws) = 1
          /\ Count("control") = 1 /\ Count("candidate") = 1
          /\ (draws[1] < Half) <=> (CallOf("control") < CallOf("candidate"))
          /\ (draws[1] >= Half) <=> (CallOf("candidate") < CallOf("control"))
    /\ (pc = "done" /\ Executed) => Len(draws) = 1 /\ BothObserved

\* C12 witness: an async_run() whose draw is exactly 0.5, with the candidate
\* finished and the control being executed.
C12_Witness ==
    /\ mode = "async_run" /\ pc = "second_running"
    /\ draws = <<Half>>
    /\ candidate_obs # Null /\ running = {"control"}

\* C12, the other order: a run() whose draw is below 0.5, with the control
\* finished and the candidate being executed.
C12_WitnessControlFirst ==
    /\ mode = "run" /\ pc = "second_running"
    /\ draws[1] < Half
    /\ control_obs # Null /\ running = {"candidate"}

\* The comparison rule, for a Result r and the calls of the comparator made
\* in the run that built it.
ComparisonRule(r) ==
    LET c == r.control
        d == r.candidate
    IN  CASE raised(c) /\ raised(d) ->
                /\ r.matched <=> (c.exception.type = d.exception.type)
                /\ Count("compare") = 0
          [] ~raised(c) /\ ~raised(d) ->
                /\ Count("compare") = 1
                /\ calls[CallOf("compare")].args = <<c.value, d.value>>
                /\ r.matched <=> (calls[CallOf("compare")].out = True)
          [] OTHER ->
                /\ ~r.matched
                /\ Count("compare") = 0

\* C13: Comparison rule.  The matched verdict of a Result is: when both
\* Observations failed, true iff the two failures are of the same type
\* (nothing else of the failures is compared); when neither failed, the
\* verdict of the configured comparator on (control value, candidate value);
\* when exactly one failed, false.  The comparator is not called when either
\* behaviour failed.
C13_ComparisonRule ==
    /\ result # Null
       => /\ result.control = control_obs /\ result.candidate = candidate_obs
          /\ ComparisonRule(result)
    /\ \A n \in DOMAIN published : ComparisonRule(published[n].result)
    /\ (BothObserved /\ (raised(control_obs) \/ raised(candidate_obs)))
       => Count("compare") = 0

\* C13 witness: both behaviours raised an exception of the same type, and
\* the sink received a Result that matched.
C13_Witness ==
    /\ published # <<>>
    /\ raised(published[1].result.control)
    /\ raised(published[1].result.candidate)
    /\ published[1].result.control.exception # published[1].result.candidate.exception
    /\ published[1].result.matched

\* C14: Cleanup on hook failure.  When a pre-run hook raises in an enabled,
\* gated-in run with both behaviours and a cleanup function set, the cleanup
\* function is called exactly once, after the hook, before the hook's
\* failure reaches the caller.
C14_CleanupOnHookFailure ==
    (/\ pc = "done" /\ GatedIn /\ HookFailed
     /\ _control # None /\ _candidate # None /\ _clean_fn # None)
    => /\ Count("clean") = 1
       /\ calls[Len(calls)].op = "clean"
       /\ outcome.kind = "raise" /\ outcome.exc.by = "before_run"

\* C15: Hook failure aborts the run.  When a pre-run hook raises, its
\* failure is what the caller receives, no later hook is called, neither the
\* control nor the candidate is executed, no comparison is made and nothing
\* is submitted to the sink.
C15_HookFailureAborts ==
    \A k \in CallsOf("before_run") :
       calls[k].out # "ok"
       => /\ pc = "done"
          /\ outcome = Raise(Exc(calls[k].out, "before_run"))
          /\ \A j \in DOMAIN calls :
                j > k => calls[j].op \notin {"before_run", "control", "candidate",
                                             "compare", "ignore", "publish"}
          /\ Count("control") = 0 /\ Count("candidate") = 0
          /\ Count("compare") = 0 /\ Count("ignore") = 0 /\ Count("publish") = 0
          /\ draws = <<>> /\ running = {}
          /\ control_obs = Null /\ candidate_obs = Null /\ result = Null
          /\ published = <<>>

\* C15 witness: two hooks are registered, both behaviours and a publisher
\* are set, the first hook raised and the caller received its failure.
C15_Witness ==
    /\ pc = "done"
    /\ Len(_before_run_hooks) = 2
    /\ _control # None /\ _candidate # None /\ _publisher # None
    /\ calls = <<Call("before_run", 1, Ordinary)>>
    /\ outcome = Raise(Exc(Ordinary, "before_run"))

\* The calls of the pre-run hooks made so far, in the order they were made.
HookCalls == SelectSeq(calls, LAMBDA c : c.op = "before_run")

\* C16: Hook order.  In every executed run every registered pre-run hook has
\* been called exactly once, in registration order, and all of them have
\* returned before the control or the candidate starts executing.
C16_HookOrder ==
    /\ Executed
       => /\ Len(HookCalls) = Len(_before_run_hooks)
          /\ \A j \in DOMAIN HookCalls :
                HookCalls[j].n = j /\ HookCalls[j].out = "ok"
          /\ \A k \in CallsOf("before_run") :
                \A j \in CallsOf("control") \cup CallsOf("candidate") : k < j
    /\ pc = "hooks"
       => /\ running = {} /\ draws = <<>>
          /\ Count("control") = 0 /\ Count("candidate") = 0
    /\ running # {}
       => /\ Len(HookCalls) = Len(_before_run_hooks)
          /\ \A j \in DOMAIN HookCalls : HookCalls[j].out = "ok"

\* C16 witness: two hooks are registered, both have been called in
\* registration order, and the first behaviour is being executed.
C16_Witness ==
    /\ pc = "first_running" /\ running # {}
    /\ Len(_before_run_hooks) = 2
    /\ calls = <<Call("before_run", 1, "ok"), Call("before_run", 2, "ok")>>

\* The calls of the ignore filters made so far, in the order they were made.
FilterCalls == SelectSeq(calls, LAMBDA c : c.op = "ignore")

\* C17: Filter order.  The ignore filters are called in registration order,
\* each at most once, and the loop stops at the first filter that answers
\* true: every filter called before it answered false, and no filter
\* registered after it is called in that run.
C17_FilterOrder ==
    /\ Len(FilterCalls) <= Len(_ignore_filters)
    /\ \A j \in DOMAIN FilterCalls :
          /\ FilterCalls[j].n = j
          /\ j < Len(FilterCalls) => FilterCalls[j].out = False
    /\ (pc = "finish" \/ published # <<>>)
       => \/ Len(FilterCalls) = Len(_ignore_filters)
          \/ FilterCalls[Len(FilterCalls)].out = True

\* C17 witness: two filters are registered, the first answered true, the
\* second was not called, and the Result was published.
C17_Witness ==
    /\ pc = "done" /\ published # <<>>
    /\ Len(_ignore_filters) = 2
    /\ FilterCalls = <<Call("ignore", 1, True)>>

\* What the try block of run() was left with, as the calls made show it: the
\* error of the comparator or of an ignore filter, a foundational error of
\* the publisher, the mismatch failure, or control's outcome.
OutcomeOfTry ==
    IF Answered("compare", Ordinary) THEN Raise(Exc(Ordinary, "compare"))
    ELSE IF Answered("ignore", Ordinary) THEN Raise(Exc(Ordinary, "ignore"))
    ELSE IF Answered("publish", Foundational)
    THEN Raise(Exc(Foundational, "publish"))
    ELSE IF _raise_on_mismatches /\ ~result.matched /\ ~result.ignored
    THEN Raise(ExperimentMismatchError(result))
    ELSE IF control_obs.exception # Null
    THEN Raise(control_obs.exception)
    ELSE Return(control_obs.value)

C19_MismatchAfterPublish ==
    /\ Len(published) <= 1 /\ Count("publish") = Len(published)
    /\ (outcome # Null /\ IsMismatchFailure(outcome))
       => /\ Len(published) = 1
          /\ published[1].to = _get_publisher
          /\ outcome.exc.result = published[1].result
          /\ outcome.exc.result = result

\* C19 witness: the sink raised when the Result was submitted to it, and
\* run() raises the mismatch failure that carries that Result.
C19_Witness ==
    /\ pc = "done"
    /\ IsMismatchFailure(outcome)
    /\ Answered("publish", Ordinary)
    /\ published = <<[to |-> "instance", result |-> outcome.exc.result]>>

\* C20: Propagation policy.  Every error that leaves run() or async_run() is
\* the configuration failure, control's own failure, a pre-run hook's
\* failure or, with raise-on-mismatch on, the mismatch failure; a failure
\* raised by the candidate, the sink, the cleanup function, the comparator,
\* an ignore filter or the gate never reaches the caller.
C20_PropagationPolicy ==
    (pc = "done" /\ outcome.kind = "raise")
    => /\ outcome.exc.by \in {"run", "control", "before_run"}
       /\ outcome.exc.by \notin {"candidate", "publish", "clean", "compare",
                                 "ignore", "run_if"}
       /\ IsMismatchFailure(outcome) => _raise_on_mismatches

\* s is an initial part of t.
IsPrefix(s, t) == Len(s) <= Len(t) /\ \A k \in DOMAIN s : s[k] = t[k]

C21_WitnessSkipped ==
    /\ previous # Null /\ mode = "async_run" /\ pc = "done"
    /\ Answered("run_if", False)
    /\ outcome.kind = "return" /\ outcome = previous.outcome

\* A field of an Observation is populated when it does not hold None.
ValuePopulated(obs) == obs.value # None
ExceptionPopulated(obs) == obs.exception # Null

\* observe or async_observe has been called on its own.
Captured == evaluation # Null /\ evaluation.fn \in {"observe", "async_observe"}

\* C22: Observation capture.  observe and async_observe call the behaviour
\* exactly once, never raise whatever the behaviour raises, and return an
\* Observation in which exactly one of value and exception is populated, for
\* every behaviour outcome, a returned None included; raised is true iff the
\* exception is populated.
C22_ObservationCapture ==
    Captured
    => /\ evaluation.invoked = 1
       /\ evaluation.gave.kind = "return"
       /\ LET obs == evaluation.gave.value
          IN  /\ obs.name = evaluation.name
              /\ ValuePopulated(obs) # ExceptionPopulated(obs)
              /\ raised(obs) <=> ExceptionPopulated(obs)
              /\ raised(obs) <=> evaluation.behavior.kind = "raise"

\* C23: Sink selection.  If a sink has been configured on the experiment
\* with publish(), every executed run submits its Result to that sink and
\* never to the ambient default sink; if none has been configured, the Result
\* goes to the ambient default sink when one is set, and to the no-op sink
\* otherwise.
C23_SinkSelection ==
    /\ \A n \in DOMAIN published :
          published[n].to = IF _publisher # None THEN _publisher
                            ELSE IF _default_publisher_context # None
                            THEN _default_publisher_context
                            ELSE "NoopPublisher"
    /\ (pc = "done" /\ Executed /\ outcome.kind = "return")
       => Len(published) = 1

\* What call t hands back for what its own control did.
OwnControlOutcome(t) ==
    IF inflight[t].control.kind = "return"
    THEN Return(inflight[t].control.value)
    ELSE Raise(Exc(inflight[t].control.type, "control"))

ValueOr(value, default) == IF value = Unset THEN default ELSE value

\* C25 as claimed: the two defaults are independent cells, and in every
\* execution context a get returns the value most recently set in that
\* context, or the initial value (no sink, enabled) if none was set in it;
\* so what is set in one context is never read in another.
C25_AmbientScoping ==
    \A c \in scopes.alive :
       /\ get_default_publisher_in(c) = ValueOr(scopes.own[c].publisher, None)
       /\ get_default_enabled_in(c) = ValueOr(scopes.own[c].enabled, True)

\* C25 as amended: the two defaults are independent cells, and in every
\* execution context a get returns the value most recently set in that
\* context or, if none was set in it, the value the context was created
\* with: the initial value (no sink, enabled) in the main thread and in a
\* new thread, and what the creating code's context held in a new task.
\* What is set in a context after another was created is never read in the
\* other.
C25_AmbientScopingInherited ==
    \A c \in scopes.alive :
       /\ get_default_publisher_in(c) =
             ValueOr(scopes.own[c].publisher,
                     ValueOr(scopes.born[c].publisher, None))
       /\ get_default_enabled_in(c) =
             ValueOr(scopes.own[c].enabled,
                     ValueOr(scopes.born[c].enabled, True))

\* C25 witness: context 2 was created with nothing set; then enabled was set
\* to false in context 2 and a sink was set in context 1; context 1 still
\* reads enabled, and context 2 still reads no sink.
C25_Witness ==
    /\ scopes.alive = {1, 2}
    /\ scopes.born[2] = EmptyContext
    /\ scopes.own[2] = [publisher |-> Unset, enabled |-> False]
    /\ scopes.own[1] = [publisher |-> "default", enabled |-> Unset]
    /\ get_default_enabled_in(2) = False /\ get_default_publisher_in(2) = None
    /\ get_default_enabled_in(1) = True
    /\ get_default_publisher_in(1) = "default"

\* C26: Ambient visibility.  The defaults are cells shared by the whole
\* process: once set_default_enabled(v) or set_default_publisher(p) has
\* returned in one thread or task, a run() that starts in any thread or
\* task, on an experiment with no setting of its own, reads v, respectively
\* p, until the next call of that setter.
C26_AmbientVisibility ==
    \A c \in scopes.alive :
       /\ scopes.written.enabled # Unset
          => _is_enabled_in(c) = (scopes.written.enabled = True)
       /\ scopes.written.publisher # Unset
          => get_default_publisher_in(c) = scopes.written.publisher


\* The fan-out sink's publish has been called on its own.
FannedOut == evaluation # Null /\ evaluation.fn = "CompositePublisher.publish"

\* Every child is called exactly once with the Result, in construction order.
EveryChildOnce ==
    /\ Len(evaluation.did.received) = Len(evaluation.publishers)
    /\ \A k \in DOMAIN evaluation.did.received :
          evaluation.did.received[k] =
             [child |-> k, result |-> evaluation.result]

Compared ==
    evaluation # Null /\ evaluation.fn = "percent_difference_comparator"

\* The policy with threshold 0.1 has been given (control, candidate).
Example(control, candidate) ==
    /\ evaluation.threshold = Ratio(10, 100)
    /\ evaluation.control = control
    /\ evaluation.candidate = candidate

\* C28: Percentage-difference policy with threshold t.  It returns true if
\* both values are zero, false if exactly one is zero, and otherwise true iff
\* |control - candidate| <= t * |control|, the boundary included; for t = 0.1
\* it returns true for (100,105) and (100,110), false for (100,120), true for
\* (0,0), false for (0,5) and (5,0).
C28_PercentDifference ==
    Compared
    => LET c == evaluation.control
           d == evaluation.candidate
           t == evaluation.threshold
       IN  /\ (c = 0 /\ d = 0) => evaluation.gave
           /\ ((c = 0) # (d = 0)) => ~evaluation.gave
           /\ (c # 0 /\ d # 0)
              => (evaluation.gave
                    <=> Abs(c - d) * t.den <= t.num * Abs(c))
           /\ Example(100, 105) => evaluation.gave
           /\ Example(100, 110) => evaluation.gave
           /\ Example(100, 120) => ~evaluation.gave
           /\ Example(0, 0) => evaluation.gave
           /\ Example(0, 5) => ~evaluation.gave
           /\ Example(5, 0) => ~evaluation.gave

\* The boundary: 100 and 110 with threshold 0.1 have been found equivalent.
C28_Witness ==
    /\ Compared
    /\ Example(100, 110)
    /\ evaluation.gave


\* Gates have been built by entity_gate, or by run_if_entity.
GatesBuilt ==
    evaluation # Null /\ evaluation.fn \in {"entity_gate", "run_if_entity"}

\* C29: Deterministic entity gate.  The verdict of entity_gate(entity,
\* percent, salt) is fixed at construction as (bucket < percent), where bucket
\* in [0,100) is a function of (salt, entity) only: every call of one gate
\* returns the same boolean, two gates built with identical arguments return
\* the same boolean, percent=0 is false and percent=100 is true for every
\* entity and salt; run_if_entity on an experiment named N gates exactly as
\* entity_gate with salt N.
C29_EntityGate ==
    GatesBuilt
    => /\ \A n \in DOMAIN evaluation.gates :
             LET g == evaluation.gates[n]
             IN  /\ g.bucket \in 0..99
                 /\ g.returned[1] = (g.bucket < g.percent)
                 /\ g.returned[2] = g.returned[1]
                 /\ g.percent = 0 => g.returned = <<FALSE, FALSE>>
                 /\ g.percent = 100 => g.returned = <<TRUE, TRUE>>
       /\ \A n, m \in DOMAIN evaluation.gates :
             LET g == evaluation.gates[n]
                 h == evaluation.gates[m]
             IN  /\ (g.salt = h.salt /\ g.entity_id = h.entity_id)
                    => g.bucket = h.bucket
                 /\ (g.salt = h.salt /\ g.entity_id = h.entity_id
                       /\ g.percent = h.percent)
                    => g.returned = h.returned
       /\ evaluation.fn = "run_if_entity"
          => LET g == evaluation.gates[1]
             IN  /\ g.salt = evaluation.name
                 /\ g.returned[1]
                      = call_gate(entity_gate(g.entity_id, g.percent,
                                              evaluation.name))

\* Two gates built with identical arguments for an entity whose bucket is 49
\* at 50 percent: both return true on both calls.
C29_Witness ==
    /\ evaluation # Null /\ evaluation.fn = "entity_gate"
    /\ evaluation.gates[1] = evaluation.gates[2]
    /\ evaluation.gates[1].bucket = 49
    /\ evaluation.gates[1].percent = 50
    /\ evaluation.gates[1].returned = <<TRUE, TRUE>>

\* run_if_entity on the experiment named "exp" for an entity whose salted
\* bucket is 0: the gate is closed at 0 percent.
C29_WitnessRunIfEntity ==
    /\ evaluation # Null /\ evaluation.fn = "run_if_entity"
    /\ evaluation.name = "exp"
    /\ evaluation.gates[1].bucket = 0
    /\ evaluation.gates[1].percent = 0
    /\ evaluation.gates[1].returned = <<FALSE, FALSE>>


\* A gate has been built by group_gate.
GroupGated == evaluation # Null /\ evaluation.fn = "group_gate"

\* The collection holds the group.
Holds(collection, group) ==
    \E n \in DOMAIN collection.items : collection.items[n] = group

\* C30: Group gate.  group_gate(allowed, actual) returns true iff allowed and
\* actual have at least one element in common, so it is false whenever either
\* collection is empty, whether they are given as sets or lists, and the gate
\* returns that same verdict on every call.
C30_GroupGate ==
    GroupGated
    => LET verdict == \E group \in Groups :
                         /\ Holds(evaluation.allowed, group)
                         /\ Holds(evaluation.actual, group)
       IN  /\ evaluation.returned = <<verdict, verdict>>
           /\ (evaluation.allowed.items = <<>> \/ evaluation.actual.items = <<>>)
              => evaluation.returned = <<FALSE, FALSE>>

\* A list of allowed groups and a set of actual groups whose only common
\* element is the second of each: the gate is open on both calls.
C30_Witness ==
    /\ GroupGated
    /\ evaluation.allowed = [kind |-> "list", items |-> <<"beta", "internal">>]
    /\ evaluation.actual = [kind |-> "set", items |-> <<"premium", "internal">>]
    /\ evaluation.returned = <<TRUE, TRUE>>


\* A Result has been constructed on its own and its properties read.
Constructed == evaluation # Null /\ evaluation.fn = "Result"

\* How many of the formulas are true.
HowMany(bs) == Cardinality({n \in DOMAIN bs : bs[n]})

\* C31: Result predicates.  For every Result, whatever matched and ignored
\* are, mismatched = not matched, ignored_mismatch = mismatched and ignored,
\* unexpected_mismatch = mismatched and not ignored; so exactly one of
\* matched, ignored_mismatch and unexpected_mismatch is true, and a Result
\* with matched and ignored both true is neither kind of mismatch.
C31_ResultPredicates ==
    Constructed
    => LET r == evaluation.result
       IN  /\ evaluation.mismatched = ~r.matched
           /\ evaluation.ignored_mismatch = (~r.matched /\ r.ignored)
           /\ evaluation.unexpected_mismatch = (~r.matched /\ ~r.ignored)
           /\ HowMany(<<r.matched, evaluation.ignored_mismatch,
                        evaluation.unexpected_mismatch>>) = 1
           /\ (r.matched /\ r.ignored)
              => /\ ~evaluation.ignored_mismatch
                 /\ ~evaluation.unexpected_mismatch

\* A Result with matched and ignored both true, which is no mismatch.
C31_Witness ==
    /\ Constructed
    /\ evaluation.result.matched /\ evaluation.result.ignored
    /\ ~evaluation.mismatched
    /\ ~evaluation.ignored_mismatch /\ ~evaluation.unexpected_mismatch


\* The behaviour observed first in this call, the one observed second, and
\* whether the first one raised.
FirstBehaviour == FirstOf(draws[Len(draws)])
SecondBehaviour == SecondOf(draws[Len(draws)])
FirstFailed ==
    /\ draws # <<>>
    /\ \E k \in CallsOf(FirstBehaviour) : calls[k].out \in ExcTypes

\* C32: Failure isolation during execution.  In every executed run control
\* and candidate are each called exactly once; a failure of the behaviour
\* that runs first, foundational ones included, does not prevent the second
\* behaviour from being executed, and no outcome is on its way to the caller
\* before the second behaviour has finished; the first behaviour's own
\* failure reaches the caller only after the Result has been submitted.
C32_FailureIsolation ==
    /\ Count("control") <= 1 /\ Count("candidate") <= 1
    /\ (pc = "done" /\ Executed)
       => Count("control") = 1 /\ Count("candidate") = 1
    /\ (Executed /\ FirstFailed /\ outcome # Null)
       => /\ Count(SecondBehaviour) = 1
          /\ running = {}
          /\ CallOf(FirstBehaviour) < CallOf(SecondBehaviour)
          /\ (outcome.kind = "raise" /\ outcome.exc.by = FirstBehaviour)
             => /\ Len(published) = 1
                /\ published[1].result.control = control_obs
                /\ published[1].result.candidate = candidate_obs

\* Control ran first and raised a foundational exception; the candidate was
\* executed after it, the Result was submitted, and the caller receives
\* control's failure.
C32_Witness ==
    /\ pc = "done" /\ Executed
    /\ FirstBehaviour = "control"
    /\ Answered("control", Foundational)
    /\ Count("candidate") = 1
    /\ Len(published) = 1
    /\ outcome = Raise(Exc(Foundational, "control"))


----------------------------------------------------------------------------
\* A sequence of calls of run() on one experiment, counted by the caller.

\* How many Results the caller counts up to.
MaxRuns == 2

\* No hook, equivalence policy or ignore filter raised in this call.
NoneRaised ==
    \A k \in DOMAIN calls :
       calls[k].op \in {"before_run", "compare", "ignore"}
       => calls[k].out \notin ExcTypes

\* The call was enabled, gated in and fully configured, and no hook,
\* equivalence policy or ignore filter raised in it.
Qualifies ==
    /\ GatedIn
    /\ _control # None /\ _candidate # None
    /\ NoneRaised

\* The mutant of returned: the caller counts the executed calls, whatever
\* was raised in them.
returned_counting_executed ==
    /\ pc = "done"
    /\ tally.qualifying < MaxRuns /\ tally.submitted < MaxRuns
    /\ tally' = [qualifying |-> tally.qualifying + IF Executed THEN 1 ELSE 0,
                 submitted |-> tally.submitted + Len(published)]
    /\ pc' = "idle"
    /\ mode' = None
    /\ i' = 0
    /\ control_obs' = Null
    /\ candidate_obs' = Null
    /\ result' = Null
    /\ outcome' = Null
    /\ draws' = <<>>
    /\ running' = {}
    /\ calls' = <<>>
    /\ published' = <<>>
    /\ UNCHANGED <<interrupts, config, ambient, previous, evaluation,
                   inflight, locals, sunk, scopes, chained>>

\* The call returns to its caller, as in deliver, and the caller counts it:
\* whether it was one that is to submit a Result, and the Results the sink
\* received during it.
returned ==
    /\ pc = "done"
    /\ tally.qualifying < MaxRuns /\ tally.submitted < MaxRuns
    /\ tally' = [qualifying |-> tally.qualifying + IF Qualifies THEN 1 ELSE 0,
                 submitted |-> tally.submitted + Len(published)]
    /\ pc' = "idle"
    /\ mode' = None
    /\ i' = 0
    /\ control_obs' = Null
    /\ candidate_obs' = Null
    /\ result' = Null
    /\ outcome' = Null
    /\ draws' = <<>>
    /\ running' = {}
    /\ calls' = <<>>
    /\ published' = <<>>
    /\ UNCHANGED <<interrupts, config, ambient, previous, evaluation,
                   inflight, locals, sunk, scopes, chained>>

NextSequence ==
    \/ use \/ try_ \/ run_if \/ before_run \/ ignore \/ compare \/ clean
    \/ enabled(FALSE)
    \/ run("run")
    \/ gate \/ _run_control_only \/ hook
    \/ draw_order \/ first \/ observe_second \/ second
    \/ _build_result \/ ignore_filter \/ _finish \/ finally
    \/ returned

SpecSequence == Init /\ [][NextSequence]_vars

\* The place of a call into caller-supplied code in the order of the steps.
Rank(op) ==
    CASE op = "run_if" -> 1
      [] op = "before_run" -> 2
      [] op \in {"control", "candidate"} -> 3
      [] op = "compare" -> 4
      [] op = "ignore" -> 5
      [] op = "publish" -> 6
      [] op = "clean" -> 7

Completed(k) == calls[k].out # Coroutine

\* C34: Async suspension points.  An async_run() suspends at the two
\* behaviour invocations and, when a pre-run hook or the sink is itself
\* suspending, at that hook's or sink's invocation, where it waits for it to
\* complete: a suspending hook has completed before any behaviour starts, and
\* a suspending sink's publish has completed before async_run() returns.
C34_SuspensionPoints ==
    mode = "async_run"
    => /\ (running # {} \/ Count("control") + Count("candidate") > 0)
          => \A k \in CallsOf("before_run") : Completed(k)
       /\ pc = "done"
          => \A k \in CallsOf("publish") : Completed(k)


\* A step of a call of run() or async_run(): the call itself, or a step
\* taken while the call is in progress.
StepOfRun == pc # "idle" \/ pc' # "idle"

C36_GateEvaluation ==
    /\ Count("run_if") <= 1
    /\ Count("run_if") = 1 => (calls[1].op = "run_if" /\ ~Disabled)
    /\ Disabled => Count("run_if") = 0
    /\ (pc # "idle" /\ ~Disabled /\ _run_if_fn = None)
       => /\ Count("run_if") = 0
          /\ pc # "control_only"
          /\ pc = "done"
             => IF _control # None /\ _candidate # None
                THEN Count("candidate") = 1
                ELSE outcome = Raise(ConfigurationFailure) /\ calls = <<>>

\* The ambient default is false, the experiment is enabled explicitly and has
\* a gate, which has been asked once and has answered false in an
\* async_run().
C36_Witness ==
    /\ pc = "done" /\ mode = "async_run"
    /\ _default_enabled_context = FALSE /\ _enabled = True
    /\ Count("run_if") = 1 /\ Answered("run_if", False)
    /\ Count("control") = 1


\* C37: Skipped runs bypass hooks and cleanup.  When a run is skipped
\* (disabled, or gated out) no pre-run hook is called and the cleanup function
\* is not called, whether control returns or raises; the cleanup function is
\* not called either when run() ends with a configuration failure.
C37_SkippedBypass ==
    /\ Skipped => (Count("before_run") = 0 /\ Count("clean") = 0)
    /\ (pc = "done" /\ Skipped /\ _control # None)
       => /\ Count("control") = 1
          /\ \A k \in DOMAIN calls : calls[k].op \in {"run_if", "control"}
    /\ (pc = "done" /\ outcome = Raise(ConfigurationFailure))
       => Count("clean") = 0

\* A run with a hook and a cleanup function set was gated out and control
\* raised: neither the hook nor the cleanup function was called.
C37_Witness ==
    /\ pc = "done" /\ Answered("run_if", False)
    /\ _before_run_hooks # <<>> /\ _clean_fn # None
    /\ outcome.kind = "raise" /\ outcome.exc.by = "control"
    /\ Count("before_run") = 0 /\ Count("clean") = 0

\* A run with a cleanup function set and no candidate has raised the
\* configuration failure, after its hook, without calling the cleanup
\* function.
C37_WitnessConfiguration ==
    /\ pc = "done" /\ GatedIn
    /\ _clean_fn # None /\ _candidate = None
    /\ outcome = Raise(ConfigurationFailure)
    /\ Count("before_run") = 1 /\ Count("clean") = 0


\* A cancellation, or another foundational error, was raised inside the
\* candidate while async_run() awaited it.
CandidateCancelled ==
    mode = "async_run" /\ Answered("candidate", Foundational)

\* The cancellation is the candidate's Observation, and control is executed.
CancellationRecorded ==
    /\ candidate_obs = Observation("candidate", None,
                                   Exc(Foundational, "candidate"))
    /\ pc = "done"
       => /\ Count("control") = 1
          /\ ~(outcome.kind = "raise" /\ outcome.exc.by = "candidate")

\* C38 as claimed: in async_run() a cancellation raised inside the candidate
\* while it is awaited is recorded as the candidate's failure; it does not
\* reach the caller, control is still executed, and when control succeeded
\* the Result is submitted as a mismatch and async_run() returns control's
\* value.  It is stated here on the runs in which no error of an ignore
\* filter, the sink or the cleanup function leaves async_run(), where it
\* fails already.
C38_CancellationAbsorbed ==
    CandidateCancelled
    => /\ CancellationRecorded
       /\ (pc = "done" /\ ControlSucceeded /\ ~Escaped)
          => /\ Len(published) = 1
             /\ mismatched(published[1].result)
             /\ outcome = Return(control_obs.value)

\* C38 as amended: the cancellation is recorded as the candidate's failure,
\* does not reach the caller, and control is still executed; when control
\* succeeded the Result, a mismatch, is submitted unless an ignore filter
\* raised, and async_run() returns control's value unless raise-on-mismatch
\* is on and no filter ignored the mismatch, when it raises the mismatch
\* failure, or the error of an ignore filter or a foundational error of the
\* sink or of the cleanup function leaves it.
C38_CancellationRecorded ==
    CandidateCancelled
    => /\ CancellationRecorded
       /\ (pc = "done" /\ ControlSucceeded)
          => /\ IF Answered("ignore", Ordinary)
                THEN published = <<>>
                ELSE /\ Len(published) = 1
                     /\ mismatched(published[1].result)
                     /\ published[1].result.candidate = candidate_obs
             /\ IF Escaped
                THEN /\ outcome.kind = "raise"
                     /\ outcome.exc.by \in {"ignore", "publish", "clean"}
                ELSE IF _raise_on_mismatches /\ unexpected_mismatch(result)
                THEN outcome = Raise(ExperimentMismatchError(result))
                ELSE outcome = Return(control_obs.value)

\* The candidate was awaited first and cancelled, control was executed after
\* it and returned, the mismatch was submitted, and async_run() has returned
\* control's value.
C38_Witness ==
    /\ CandidateCancelled /\ pc = "done"
    /\ ~ControlFirst(draws[1])
    /\ ControlSucceeded
    /\ Len(published) = 1 /\ mismatched(published[1].result)
    /\ outcome = Return(control_obs.value)


\* The equivalence policy, or an ignore filter, raised in this call.
PolicyRaised == Answered("compare", Ordinary)
FilterRaised == Answered("ignore", Ordinary)

C39_WitnessPolicy ==
    /\ pc = "done" /\ PolicyRaised
    /\ outcome = Raise(Exc(Ordinary, "compare"))
    /\ published = <<>>
    /\ Count("clean") = 1


\* The calls of the chain made with one of the methods.
Chained(methods) == {k \in DOMAIN chained : chained[k].method \in methods}

\* The last call of the chain made with one of the methods.
Last(methods) ==
    CHOOSE k \in Chained(methods) : \A l \in Chained(methods) : l <= k

\* What a field set by the methods holds: what the last call made with one
\* of them was given, and what __init__ set when there is none.
Setting(methods, initial) ==
    IF Chained(methods) = {} THEN initial ELSE chained[Last(methods)].arg

\* The arguments of the calls of a method, in call order.
RECURSIVE Arguments(_, _)
Arguments(method, n) ==
    IF n = 0 THEN <<>>
    ELSE IF chained[n].method = method
    THEN Append(Arguments(method, n - 1), chained[n].arg)
    ELSE Arguments(method, n - 1)

GateSetters == {"run_if", "run_if_entity", "run_if_group", "run_if_percent"}

\* The gate the last gate setter of the chain made, alone.
LastGate ==
    IF Chained(GateSetters) = {} THEN None
    ELSE LET c == chained[Last(GateSetters)]
         IN  CASE c.method = "run_if" -> c.arg
               [] c.method = "run_if_entity" -> closure("entity_gate", c.arg)
               [] c.method = "run_if_group" -> closure("group_gate", c.arg)
               [] c.method = "run_if_percent" -> closure("request_gate", c.arg)

\* C40: Configuration composition.  Over any sequence of configuration
\* calls, use, try_, compare, publish, clean, enabled and every gate setter
\* replace the previous setting, so that only the last one is in effect
\* (gates do not combine); ignore and before_run append to their lists
\* preserving call order; raise_on_mismatches can only turn the flag on; and
\* every configuration call returns the same experiment instance.
C40_ConfigurationComposition ==
    /\ _control = Setting({"use"}, None)
    /\ _candidate = Setting({"try_"}, None)
    /\ _comparator = Setting({"compare"}, "DefaultComparator")
    /\ _publisher = Setting({"publish"}, None)
    /\ _clean_fn = Setting({"clean"}, None)
    /\ _enabled = Setting({"enabled"}, None)
    /\ _run_if_fn = LastGate
    /\ _ignore_filters = Arguments("ignore", Len(chained))
    /\ _before_run_hooks = Arguments("before_run", Len(chained))
    /\ _raise_on_mismatches = (Chained({"raise_on_mismatches"}) # {})
    /\ \A k \in DOMAIN chained : chained[k].returned = Self

\* run_if_entity, then run_if(f), then run_if_group: the gate in effect is
\* the group gate alone.
C40_Witness ==
    /\ Len(chained) = 3
    /\ chained[1].method = "run_if_entity"
    /\ chained[2].method = "run_if" /\ chained[2].arg = "f"
    /\ chained[3].method = "run_if_group"
    /\ _run_if_fn = closure("group_gate", "beta")

\* ignore(g), ignore(f), ignore(g): the list holds the three in call order.
C40_WitnessAppend ==
    /\ Len(chained) = 3
    /\ _ignore_filters = <<"g", "f", "g">>

=============================================================================
